---- MODULE Spec2Model ----
(***************************************************************************)
(* larkspur: a Redis-backed Bloom filter (BloomFilter) and its scalable    *)
(* variant (ScalableBloomFilter), src/larkspur/larkspur.py.                *)
(*                                                                         *)
(* The Redis database is the shared state; every BloomFilter and           *)
(* ScalableBloomFilter object is a client-side handle holding a copy of    *)
(* the configuration and a local count.  Methods are modelled as pure      *)
(* operators from (database, object, arguments) to (database, object,      *)
(* result); the actions apply them to the state variables.                 *)
(*                                                                         *)
(* Representation of Python values:                                        *)
(*   - keys are the integers 1..NumKeys; the hasher hashes str(key);       *)
(*   - a float error_rate is held in units of 10^-9 and a ratio in         *)
(*     millionths (0.5 is 500000000 as an error rate, 500000 as a ratio);  *)
(*   - struct.unpack uses the native byte order, little-endian on the      *)
(*     platforms the package is built for; DigestWords holds the digests   *)
(*     as little-endian 16-bit words.                                      *)
(***************************************************************************)
EXTENDS Integers, Sequences, FiniteSets, TLC

(* ------------------------------ bounds --------------------------------- *)

\* keys offered to the filters are 1..NumKeys
NumKeys == 3

\* longest key list handed to bulk_add
MaxBulk == 2

\* most generations a scalable filter is grown to
MaxGenerations == 3

\* most generations of the long chains, which reach two-digit suffixes
MaxChain == 12

(* --------------------------- small helpers ----------------------------- *)

Min(a, b) == IF a < b THEN a ELSE b

Max(a, b) == IF a > b THEN a ELSE b

Range(s) == { s[i] : i \in 1..Len(s) }


\* Python's "x or d" on numbers: a missing or zero value yields d
OrElse(present, x, d) == IF present /\ x # 0 THEN x ELSE d

Keys == 1..NumKeys

KeyLists == UNION { [1..n -> Keys] : n \in 0..MaxBulk }

(* ------------------------ make_hashes / hasher ------------------------- *)

\* hashfn(hashfn(pack('I', 0)).digest()) updated with str(key), for the
\* keys 1..8, each digest as little-endian 16-bit words (salt 0)
DigestWords ==
  [ md5 |-> <<
      <<63782, 63182, 62712, 50608, 47258, 47663, 53159, 58992>>,
      <<21948, 55467, 61537, 7095, 46224, 11229, 22951, 54291>>,
      <<1822, 59645, 59553, 34961, 1169, 3644, 21811, 14398>>,
      <<41831, 43750, 65102, 7859, 34661, 27627, 37868, 58147>>,
      <<39970, 57891, 40063, 44791, 22875, 25176, 3277, 1912>>,
      <<36353, 36923, 25616, 42660, 650, 5335, 56344, 14337>>,
      <<64146, 19304, 35958, 61926, 30801, 40135, 53138, 59317>>,
      <<27377, 29558, 38241, 26811, 7175, 60743, 52377, 19992>>
    >>,
    sha1 |-> <<
      <<62267, 33940, 45809, 37919, 56995, 30608, 41697, 7571, 53428, 41036>>,
      <<42796, 9743, 58264, 62755, 65214, 28847, 62236, 42509, 38914, 7465>>,
      <<44434, 42774, 21419, 53164, 8074, 16991, 20869, 65281, 24747, 12875>>,
      <<18555, 46992, 50065, 22030, 50725, 28280, 54828, 1749, 7093, 11201>>,
      <<53597, 32463, 48931, 37055, 20022, 36716, 57911, 49166, 47332, 48369>>,
      <<42493, 8095, 15289, 58752, 57718, 49146, 4234, 47634, 31098, 2732>>,
      <<30247, 40973, 55928, 33431, 58171, 60605, 26772, 52337, 22832, 38289>>,
      <<48836, 26103, 13458, 60430, 58764, 43476, 40049, 10811, 18133, 15186>>
    >>,
    sha256 |-> <<
      <<50394, 20617, 22722, 13902, 58483, 24659, 59259, 40952, 6082, 16062, 57632, 36961, 27673, 48653, 30184, 64794>>,
      <<24959, 22345, 22122, 53700, 25338, 4877, 54026, 44635, 24819, 37855, 40920, 37631, 27716, 9025, 16228, 61935>>,
      <<17346, 42059, 24103, 40135, 46892, 13349, 44954, 27309, 2808, 43547, 60928, 55303, 36154, 29866, 48848, 13371>>,
      <<43391, 14649, 32447, 55778, 21117, 3694, 43891, 9722, 6415, 43198, 26130, 13660, 27866, 26492, 23798, 18277>>,
      <<47541, 19455, 37362, 55126, 63866, 22086, 37057, 32557, 34590, 64457, 16794, 18237, 51442, 64493, 46283, 59322>>,
      <<42228, 51473, 4978, 29920, 43039, 13182, 172, 27235, 44798, 5843, 44388, 29180, 31013, 34325, 9238, 25700>>,
      <<36700, 21131, 21889, 36095, 51287, 15341, 27206, 7703, 3521, 47043, 56872, 5542, 35241, 10761, 39344, 12608>>,
      <<59391, 13908, 15253, 34087, 59292, 51512, 45716, 26343, 17659, 2351, 42256, 45326, 21207, 55411, 3479, 47122>>
    >>,
    sha384 |-> <<
      <<56196, 3946, 57922, 31939, 23071, 42499, 36074, 55424, 31827, 2175, 12651, 33613, 14034, 6137, 47408, 22332, 14422, 24377, 13654, 8821, 50275, 14650, 24267, 11547>>,
      <<26549, 57696, 60949, 12319, 17359, 27499, 6207, 22436, 6659, 49821, 44923, 42826, 5479, 18682, 44608, 22218, 45689, 22776, 41630, 1938, 57951, 18875, 50775, 14739>>,
      <<40786, 9202, 53181, 25407, 7846, 51743, 50215, 13806, 21491, 59987, 54418, 31652, 27626, 57264, 17680, 44157, 28914, 3645, 5210, 63870, 29479, 1617, 63753, 8042>>,
      <<56425, 55370, 20167, 49706, 52568, 57543, 41278, 59989, 20834, 48374, 23353, 39725, 22752, 23172, 19242, 53608, 44895, 33913, 29884, 8583, 17208, 28943, 6947, 41940>>,
      <<25807, 23903, 4706, 21997, 34767, 50095, 53294, 14239, 48374, 63225, 9715, 64485, 48620, 17573, 9827, 2155, 62725, 9892, 14674, 36827, 38523, 2234, 13696, 27784>>,
      <<55050, 47404, 57925, 62, 13128, 31150, 57459, 32317, 40879, 37977, 57294, 10441, 56594, 2165, 3588, 48961, 38269, 43076, 16076, 45449, 1244, 60291, 8621, 41009>>,
      <<62821, 27286, 52000, 2153, 64015, 65096, 63619, 58525, 21650, 36257, 50273, 42684, 43077, 18299, 24045, 5735, 28237, 61636, 6326, 11622, 39478, 32477, 32921, 33199>>,
      <<63425, 31053, 29520, 43464, 27657, 15907, 4390, 32575, 23323, 54944, 16788, 50179, 27090, 42083, 64497, 30588, 6548, 31399, 54273, 48292, 33596, 26658, 52027, 28314>>
    >>,
    sha512 |-> <<
      <<49202, 18518, 1343, 39460, 29356, 38380, 57165, 58983, 7243, 28699, 34580, 18419, 19541, 38170, 42598, 21254, 17146, 61078, 53823, 29468, 10044, 32474, 31558, 23377, 22502, 56945, 5233, 55852, 52945, 46541, 21759, 21877>>,
      <<25087, 60346, 8340, 54999, 46677, 6216, 61773, 36180, 29042, 44883, 46774, 44950, 22104, 14898, 20048, 38082, 44215, 5164, 11284, 13191, 12328, 23421, 9768, 30073, 24785, 17314, 7714, 64962, 53718, 65381, 25933, 48036>>,
      <<13538, 12679, 23361, 22012, 37183, 4459, 53968, 27177, 57796, 49003, 22163, 52413, 53945, 10956, 36520, 53145, 24029, 12098, 41772, 57724, 30642, 59324, 27353, 54845, 54917, 27397, 36027, 57701, 1221, 36017, 1021, 30866>>,
      <<5762, 60211, 1074, 45184, 8659, 60019, 7779, 11472, 54349, 5478, 23124, 65055, 741, 29862, 24798, 5713, 25191, 57118, 24904, 62647, 31550, 3316, 22812, 62864, 54977, 8330, 5358, 16792, 33201, 64557, 21899, 57050>>,
      <<40847, 36467, 17124, 65004, 43020, 44301, 58438, 18655, 17205, 30341, 2994, 53150, 23494, 10478, 35393, 43949, 65127, 35560, 1636, 23425, 22139, 42217, 16496, 8653, 28123, 49871, 53174, 14065, 20424, 18535, 15603, 25475>>,
      <<15204, 10780, 38656, 52210, 830, 59472, 7203, 36204, 33444, 3684, 36873, 36392, 48830, 2661, 27423, 7577, 13047, 15336, 576, 742, 28904, 9082, 5013, 63961, 46322, 14914, 55523, 44343, 32497, 59304, 639, 20261>>,
      <<36848, 10415, 22325, 8105, 30486, 5843, 51490, 2206, 27203, 6289, 61014, 46881, 52183, 52782, 23245, 31009, 43202, 51673, 29033, 52443, 8005, 8647, 56466, 8044, 3807, 53428, 12116, 29885, 45705, 743, 48024, 18953>>,
      <<18272, 1258, 36399, 37216, 57758, 40844, 59356, 49613, 59305, 56606, 54344, 19845, 38806, 59082, 46258, 23760, 58662, 16104, 25460, 26841, 48187, 34903, 34746, 29149, 8096, 32959, 48341, 19839, 31636, 43000, 4469, 37342>>
    >> ]

\* chunk_size of the packing format: 'Q' (8 bytes) when num_bits >= 1 << 31,
\* 'I' (4 bytes) when num_bits >= 1 << 15, else 'H' (2 bytes)
chunk_size(num_bits) ==
  IF num_bits \div 32768 >= 65536 THEN 8
  ELSE IF num_bits >= 32768 THEN 4
  ELSE 2

\* the hash function, chosen by total_hash_bits
hashfn(num_slices, num_bits) ==
  LET t == 8 * num_slices * chunk_size(num_bits)
  IN  IF t > 384 THEN "sha512"
      ELSE IF t > 256 THEN "sha384"
      ELSE IF t > 160 THEN "sha256"
      ELSE IF t > 128 THEN "sha1"
      ELSE "md5"

\* len(pack_format): indices unpacked from one digest, digest_size of the
\* hash function divided by the chunk size
pack_format_len(num_slices, num_bits) ==
  LET digest_size(fn) == CASE fn = "md5" -> 16
                           [] fn = "sha1" -> 20
                           [] fn = "sha256" -> 32
                           [] fn = "sha384" -> 48
                           [] fn = "sha512" -> 64
  IN  digest_size(hashfn(num_slices, num_bits)) \div chunk_size(num_bits)

\* the digest of salt number s updated with the key; salt 0 is tabulated
Digest(fn, s, key) == CASE s = 0 -> DigestWords[fn][key]

RECURSIVE DoubleMod(_, _, _)
\* (x * 2^times) % n without leaving 32-bit arithmetic: y + y is reduced
\* before it is formed
DoubleMod(x, times, n) ==
  LET twice(y) == IF y >= n - y THEN y - (n - y) ELSE y + y
  IN  IF times = 0 THEN x % n ELSE DoubleMod(twice(x % n), times - 1, n)

RECURSIVE UnpackMod(_, _, _, _)
\* the unsigned little-endian integer held in words ws[first..first+nwords-1],
\* reduced modulo n (unpack followed by "index % num_bits")
UnpackMod(ws, first, nwords, n) ==
  LET plus(a, b) == IF a >= n - b THEN a - (n - b) ELSE a + b
  IN  IF nwords = 1 THEN ws[first] % n
      ELSE plus(DoubleMod(UnpackMod(ws, first + 1, nwords - 1, n), 16, n),
                ws[first] % n)

\* make_hashes(num_slices, num_bits) applied to key: the i-th index
\* (i = 0..num_slices-1) is taken from salt i div len(pack_format), chunk
\* i mod len(pack_format), modulo num_bits; w is the number of
\* 16-bit words of one chunk, and num_salts is
\* divmod(num_slices, len(pack_format)) with one more salt for a remainder
hasher(num_slices, num_bits, key) ==
  LET num_salts(len) == (num_slices \div len)
                        + (IF num_slices % len # 0 THEN 1 ELSE 0)
      unpack_indexes(fn, len, w, produced) ==
        [ j \in 1..produced |->
            UnpackMod(Digest(fn, (j - 1) \div len, key),
                      ((j - 1) % len) * w + 1, w, num_bits) ]
      indexes(len) ==
        unpack_indexes(hashfn(num_slices, num_bits), len,
                       chunk_size(num_bits) \div 2,
                       Min(num_slices, num_salts(len) * len))
  IN  indexes(pack_format_len(num_slices, num_bits))

(* --------------------------- the Redis database ------------------------ *)

\* name of the stand-alone BloomFilter, and of the ScalableBloomFilter
BFName == "test"

SBFName == "sbf"

\* f'{self.name}:bf{i}' for i = 0, 1, 2, ...
NameTable ==
  << "sbf:bf0", "sbf:bf1", "sbf:bf2", "sbf:bf3", "sbf:bf4", "sbf:bf5",
     "sbf:bf6", "sbf:bf7", "sbf:bf8", "sbf:bf9", "sbf:bf10", "sbf:bf11",
     "sbf:bf12", "sbf:bf13", "sbf:bf14", "sbf:bf15" >>

bf_name(i) == NameTable[i + 1]

\* the number i a generation name was formatted from
Suffix(name) == CHOOSE i \in 0..(Len(NameTable) - 1) : NameTable[i + 1] = name

\* the names a chain can take here: a call starts with at most MaxGenerations
\* filters (MaxChain in a long chain) and makes at most one more for each
\* key it is given, of which a list has at most five (MaxBulk on a long
\* chain); a call that would leave a longer chain than the bound is worked
\* out before it is left out
GenNames ==
  { bf_name(i) : i \in 0..(Max(MaxGenerations + 5, MaxChain + MaxBulk) - 1) }

FilterNames == {BFName} \cup GenNames

\* fields of the hash bfmeta:<name>
MetaFields ==
  {"error_rate", "num_slices", "bits_per_slice", "capacity", "num_bits", "count"}

\* a Redis hash: the set of fields it has and their values (0 where absent);
\* a hash without fields does not exist
EmptyHash ==
  [ has |-> {}, error_rate |-> 0, num_slices |-> 0, bits_per_slice |-> 0,
    capacity |-> 0, num_bits |-> 0, count |-> 0 ]

\* fields of the hash sbfmeta:<name>
EmptySHash ==
  [ has |-> {}, error_rate |-> 0, scale |-> 0, ratio |-> 0,
    initial_capacity |-> 0 ]

\* the keys that have a time to live: bit arrays and metadata hashes by
\* filter name, the registry set and the hash sbfmeta:<name>; here none has
NoTtl == [ bits |-> {}, hashes |-> {}, registry |-> FALSE, sbfmeta |-> FALSE ]

\* the empty database (after flushdb)
EmptyRedis ==
  [ bits     |-> [ n \in FilterNames |-> {} ],
    hashes   |-> [ n \in FilterNames |-> EmptyHash ],
    registry |-> {},
    sbfmeta  |-> EmptySHash,
    ttl      |-> NoTtl ]

hgetall(r, name) == r.hashes[name]

exists(r, name) == r.hashes[name].has # {}

\* variant: the reply is the increment and not the new value
hincrby_replies_delta(r, name, delta) ==
  [ r |-> [r EXCEPT !.hashes[name].has = @ \cup {"count"},
                    !.hashes[name].count = @ + delta],
    value |-> delta ]

\* HINCRBY key count delta: creates the hash and the field when missing
hincrby(r, name, delta) ==
  LET h == r.hashes[name]
      v == h.count + delta
  IN  [ r |-> [r EXCEPT !.hashes[name] =
                  [h EXCEPT !.has = h.has \cup {"count"}, !.count = v]],
        value |-> v ]

RECURSIVE setbit_results(_, _)
\* SETBIT key pos 1 for each position in order: each returns the old bit
setbit_results(old, positions) ==
  IF positions = << >> THEN << >>
  ELSE << IF Head(positions) \in old THEN 1 ELSE 0 >>
       \o setbit_results(old \cup {Head(positions)}, Tail(positions))

\* pipe.execute() of a batch of SETBIT name pos 1
pipeline_setbit(r, name, positions) ==
  [ r   |-> [r EXCEPT !.bits[name] = @ \cup Range(positions)],
    res |-> setbit_results(r.bits[name], positions) ]

\* pipe.execute() of a batch of GETBIT name pos
pipeline_getbit(r, name, positions) ==
  [ i \in 1..Len(positions) |-> IF positions[i] \in r.bits[name] THEN 1 ELSE 0 ]

\* Python's all()
all(res) == \A i \in 1..Len(res) : res[i] # 0

(* ------------------------------ BloomFilter ---------------------------- *)

\* 1.0 as an error rate: error rates are held in units of 10^-9
One == 10^9

\* the error rate x / 1000
Thousandths(x) == x * (One \div 1000)

\* abs(math.log(error_rate)) / math.log(2) ** 2 cut after sixteen decimals,
\* as its whole part followed by four groups of four decimals, for the error
\* rates that the constructor arguments used here and their products with
\* the ratios yield
LnRatioTable ==
  500000000 :> <<1, 4426, 9504, 888, 9634>>
  @@ 450000000 :> <<1, 6619, 8915, 1, 9187>>
  @@ 405000000 :> <<1, 8812, 8325, 9114, 8740>>
  @@ 364500000 :> <<2, 1005, 7736, 8227, 8293>>
  @@ 328050000 :> <<2, 3198, 7147, 7340, 7846>>
  @@ 295245000 :> <<2, 5391, 6558, 6453, 7399>>
  @@ 265720500 :> <<2, 7584, 5969, 5566, 6952>>
  @@ 250000000 :> <<2, 8853, 9008, 1777, 9268>>
  @@ 239148450 :> <<2, 9777, 5380, 4679, 6506>>
  @@ 225000000 :> <<3, 1046, 8419, 890, 8821>>
  @@ 215233605 :> <<3, 1970, 4791, 3792, 6059>>
  @@ 202500000 :> <<3, 3239, 7830, 3, 8374>>
  @@ 182250000 :> <<3, 5432, 7240, 9116, 7927>>
  @@ 164025000 :> <<3, 7625, 6651, 8229, 7480>>
  @@ 147622500 :> <<3, 9818, 6062, 7342, 7033>>
  @@ 132860250 :> <<4, 2011, 5473, 6455, 6586>>
  @@ 125000000 :> <<4, 3280, 8512, 2666, 8902>>
  @@ 119574225 :> <<4, 4204, 4884, 5568, 6140>>
  @@ 112500000 :> <<4, 5473, 7923, 1779, 8455>>
  @@ 101250000 :> <<4, 7666, 7334, 892, 8008>>
  @@ 91125000 :> <<4, 9859, 6745, 5, 7561>>
  @@ 82012500 :> <<5, 2052, 6155, 9118, 7114>>
  @@ 73811250 :> <<5, 4245, 5566, 8231, 6667>>
  @@ 66430125 :> <<5, 6438, 4977, 7344, 6221>>
  @@ 62500000 :> <<5, 7707, 8016, 3555, 8536>>
  @@ 56250000 :> <<5, 9900, 7427, 2668, 8089>>
  @@ 50625000 :> <<6, 2093, 6838, 1781, 7642>>
  @@ 45562500 :> <<6, 4286, 6249, 894, 7195>>
  @@ 41006250 :> <<6, 6479, 5660, 7, 6748>>
  @@ 36905625 :> <<6, 8672, 5070, 9120, 6301>>
  @@ 31250000 :> <<7, 2134, 7520, 4444, 8170>>
  @@ 28125000 :> <<7, 4327, 6931, 3557, 7723>>
  @@ 25312500 :> <<7, 6520, 6342, 2670, 7276>>
  @@ 22781250 :> <<7, 8713, 5753, 1783, 6829>>
  @@ 20503125 :> <<8, 906, 5164, 896, 6382>>
  @@ 15625000 :> <<8, 6561, 7024, 5333, 7804>>
  @@ 14062500 :> <<8, 8754, 6435, 4446, 7357>>
  @@ 12656250 :> <<9, 947, 5846, 3559, 6910>>
  @@ 11390625 :> <<9, 3140, 5257, 2672, 6463>>
  @@ 7812500 :> <<10, 988, 6528, 6222, 7438>>
  @@ 7031250 :> <<10, 3181, 5939, 5335, 6991>>
  @@ 6328125 :> <<10, 5374, 5350, 4448, 6544>>
  @@ 3906250 :> <<11, 5415, 6032, 7111, 7072>>
  @@ 3515625 :> <<11, 7608, 5443, 6224, 6625>>
  @@ 1953125 :> <<12, 9842, 5536, 8000, 6706>>
  @@ 1000000 :> <<14, 3775, 8756, 6051, 1586>>
  @@ 900000 :> <<14, 5968, 8167, 5164, 1139>>
  @@ 810000 :> <<14, 8161, 7578, 4277, 692>>
  @@ 729000 :> <<15, 354, 6989, 3390, 245>>
  @@ 656100 :> <<15, 2547, 6400, 2502, 9798>>
  @@ 590490 :> <<15, 4740, 5811, 1615, 9351>>
  @@ 531441 :> <<15, 6933, 5222, 728, 8904>>
  @@ 500000 :> <<15, 8202, 8260, 6940, 1220>>
  @@ 450000 :> <<16, 395, 7671, 6053, 773>>
  @@ 405000 :> <<16, 2588, 7082, 5166, 326>>
  @@ 364500 :> <<16, 4781, 6493, 4278, 9879>>
  @@ 328050 :> <<16, 6974, 5904, 3391, 9432>>
  @@ 295245 :> <<16, 9167, 5315, 2504, 8985>>
  @@ 250000 :> <<17, 2629, 7764, 7829, 854>>
  @@ 225000 :> <<17, 4822, 7175, 6942, 407>>
  @@ 202500 :> <<17, 7015, 6586, 6054, 9960>>
  @@ 182250 :> <<17, 9208, 5997, 5167, 9513>>
  @@ 164025 :> <<18, 1401, 5408, 4280, 9066>>
  @@ 125000 :> <<18, 7056, 7268, 8718, 488>>
  @@ 112500 :> <<18, 9249, 6679, 7831, 41>>
  @@ 101250 :> <<19, 1442, 6090, 6943, 9594>>
  @@ 91125 :> <<19, 3635, 5501, 6056, 9147>>
  @@ 62500 :> <<20, 1483, 6772, 9607, 122>>
  @@ 56250 :> <<20, 3676, 6183, 8719, 9675>>
  @@ 50625 :> <<20, 5869, 5594, 7832, 9228>>
  @@ 31250 :> <<21, 5910, 6277, 495, 9756>>
  @@ 28125 :> <<21, 8103, 5687, 9608, 9309>>
  @@ 15625 :> <<23, 337, 5781, 1384, 9390>>
  @@ 1000 :> <<28, 7551, 7513, 2102, 3172>>

\* numbers are multiplied in groups of four decimal digits, which keeps every
\* intermediate value within 32 bits
Limb == 10000

RECURSIVE CeilLog2Inv(_, _)
\* int(math.ceil(math.log(1.0 / error_rate, 2))): the least n >= from with
\* error_rate * 2^n >= 1
CeilLog2Inv(error_rate, from) ==
  IF error_rate >= One THEN from
  ELSE CeilLog2Inv(2 * error_rate, from + 1)

\* int(math.ceil((capacity * abs(math.log(error_rate)))
\*               / (num_slices * (math.log(2) ** 2)))):
\* the quotient is capacity * ratio / num_slices, which is never a whole
\* number, so its ceiling is one more than the whole part of capacity * ratio
\* divided by num_slices. The whole part of capacity * ratio comes from a
\* long multiplication: c0, c1, c2 are the groups of the capacity, lowest
\* first, t[1] is the whole part of the ratio and t[2] to t[5] are the
\* groups after the point; s0 to s6 are the columns of the product, lowest
\* first, each with the carry of the column below it, and the whole part of
\* the product is the columns from s4 on, which Quotient divides by
\* num_slices group by group, highest first; a capacity of 1000000000 has
\* a product that 32 bits do not hold, its quotient they do
BitsPerSlice(capacity, error_rate, num_slices) ==
  LET WholeProduct(t) ==
        LET c0 == capacity % Limb
            c1 == (capacity \div Limb) % Limb
            c2 == capacity \div (Limb * Limb)
            s0 == c0 * t[5]
            s1 == c0 * t[4] + c1 * t[5] + s0 \div Limb
            s2 == c0 * t[3] + c1 * t[4] + c2 * t[5] + s1 \div Limb
            s3 == c0 * t[2] + c1 * t[3] + c2 * t[4] + s2 \div Limb
            s4 == c0 * t[1] + c1 * t[2] + c2 * t[3] + s3 \div Limb
            s5 == c1 * t[1] + c2 * t[2] + s4 \div Limb
            s6 == c2 * t[1] + s5 \div Limb
        IN  << s6, s5 % Limb, s4 % Limb >>
      Quotient(w) ==
        LET q2 == w[1] \div num_slices
            r2 == w[1] % num_slices
            q1 == (r2 * Limb + w[2]) \div num_slices
            r1 == (r2 * Limb + w[2]) % num_slices
            q0 == (r1 * Limb + w[3]) \div num_slices
        IN  q0 + Limb * q1 + Limb * Limb * q2
  IN  Quotient(WholeProduct(LnRatioTable[error_rate])) + 1

\* a handle that has not been constructed
NoFilter ==
  [ name |-> "", error_rate |-> 0, num_slices |-> 0, bits_per_slice |-> 0,
    capacity |-> 0, num_bits |-> 0, count |-> 0 ]

\* deserialize_hm: the dictionary of the fields the hash has; error_rate is
\* parsed as a float and every other field as an int, both of which return
\* the number that was written
deserialize_hm(hm) == hm

\* variant: the argument is taken although the hash has the field
meta_get_or_argument(meta, field, default) == default

\* meta.get(field) or default
meta_get_or(meta, field, default) ==
  OrElse(field \in meta.has, meta[field], default)

\* self.num_bits > 1 << 32, for num_bits as init_fields holds it
TooLarge(num_bits) ==
  IF num_bits >= 0
  THEN \/ num_bits \div 65536 > 65536
       \/ num_bits \div 65536 = 65536 /\ num_bits % 65536 > 0
  ELSE 0 - num_bits > 65536

\* BloomFilter._create_meta: HMSET of the six fields
BloomFilter_create_meta(r, self) ==
  [r EXCEPT !.hashes[self.name] =
     [ has |-> @.has \cup MetaFields,
       error_rate |-> self.error_rate, num_slices |-> self.num_slices,
       bits_per_slice |-> self.bits_per_slice, capacity |-> self.capacity,
       num_bits |-> self.num_bits, count |-> self.count ]]

\* variant: capacity >= 0 is let through
ValidArguments_zero_capacity(capacity, error_rate) ==
  /\ 0 < error_rate /\ error_rate < One
  /\ capacity >= 0

\* the two argument checks that open BloomFilter.__init__
ValidArguments(capacity, error_rate) ==
  /\ 0 < error_rate /\ error_rate < One
  /\ capacity > 0

\* __init__ up to the size check: the fields of the object, each taken from
\* the hash HGETALL returned where it has the field with a value that is
\* not zero, else from the arguments. num_bits is num_slices *
\* bits_per_slice; a product of 2^31 or more is not a number of the model
\* and is held as minus the number of blocks of 65536 bits that it fills
\* or begins, which is what the size check needs of it
init_fields(r, name, capacity, error_rate) ==
  LET num_slices == CeilLog2Inv(error_rate, 0)
      bits_per_slice == BitsPerSlice(capacity, error_rate, num_slices)
      low == num_slices * (bits_per_slice % 65536)
      high == num_slices * (bits_per_slice \div 65536) + low \div 65536
      num_bits == IF high < 32768 THEN num_slices * bits_per_slice
                  ELSE 0 - (high + (IF low % 65536 > 0 THEN 1 ELSE 0))
      meta == deserialize_hm(hgetall(r, name))
  IN  [ name |-> name,
        error_rate |-> meta_get_or(meta, "error_rate", error_rate),
        num_slices |-> meta_get_or(meta, "num_slices", num_slices),
        bits_per_slice |->
          meta_get_or(meta, "bits_per_slice", bits_per_slice),
        capacity |-> meta_get_or(meta, "capacity", capacity),
        num_bits |->
          meta_get_or(meta, "num_bits", num_bits),
        count |-> meta_get_or(meta, "count", 0) ]

\* BloomFilter.__init__: the argument checks, the fields, the size check,
\* and the metadata written when the hash does not exist
BloomFilter_init(r, name, capacity, error_rate) ==
  IF ~ValidArguments(capacity, error_rate)
  THEN [ r |-> r, self |-> NoFilter, exc |-> "ValueError" ]
  ELSE LET init_store(self) ==
             IF TooLarge(self.num_bits)
             THEN [ r |-> r, self |-> NoFilter, exc |-> "ValueError" ]
             ELSE [ r |-> IF ~exists(r, self.name)
                          THEN BloomFilter_create_meta(r, self) ELSE r,
                    self |-> self, exc |-> "none" ]
       IN  init_store(init_fields(r, name, capacity, error_rate))

\* variant: the offset is advanced before it is used
slice_positions_offset_first(indexes, bits_per_slice) ==
  [ i \in 1..Len(indexes) |-> i * bits_per_slice + indexes[i] ]

\* offset + index for each index in turn, offset += bits_per_slice
slice_positions(indexes, bits_per_slice) ==
  [ i \in 1..Len(indexes) |-> (i - 1) * bits_per_slice + indexes[i] ]

\* the positions __contains__ reads
contains_positions(self, key) ==
  slice_positions(hasher(self.num_slices, self.bits_per_slice, key),
                  self.bits_per_slice)

\* BloomFilter.__contains__
BloomFilter_contains(r, self, key) ==
  all(pipeline_getbit(r, self.name, contains_positions(self, key)))

\* variant: the slice offset is left out
add_positions_without_offset(self, key) ==
  hasher(self.num_slices, self.bits_per_slice, key)

\* the positions add sets
add_positions(self, key) ==
  slice_positions(hasher(self.num_slices, self.bits_per_slice, key),
                  self.bits_per_slice)

\* variant: count >= capacity
add_at_capacity_inclusive(self) == self.count >= self.capacity

\* add, first line: the capacity check on the local count
add_at_capacity(self) == self.count > self.capacity

\* add, second part: the pipelined SETBITs
add_pipeline(r, self, key) == pipeline_setbit(r, self.name, add_positions(self, key))

\* variant: the count is written back from the local count, HSET of
\* self.count + 1
add_increment_read_modify_write(r, self) ==
  [ r |-> [r EXCEPT !.hashes[self.name].has = @ \cup {"count"},
                    !.hashes[self.name].count = self.count + 1],
    self |-> [self EXCEPT !.count = @ + 1] ]

\* add, last part: self.count = hincrby(meta_name, 'count', 1)
add_increment(r, self) ==
  LET inc == hincrby(r, self.name, 1)
  IN  [ r |-> inc.r, self |-> [self EXCEPT !.count = inc.value] ]

\* add after pipe.execute() has returned p: the counter is incremented
\* unless every SETBIT returned 1; ret is already_present
add_after_pipeline(p, self) ==
  LET already_present == all(p.res)
  IN  IF ~already_present
      THEN LET inc == add_increment(p.r, self)
           IN  [ r |-> inc.r, self |-> inc.self, ret |-> FALSE,
                 exc |-> "none" ]
      ELSE [ r |-> p.r, self |-> self, ret |-> TRUE, exc |-> "none" ]

\* variant: the counter is incremented for a member as well
BloomFilter_add_counts_members(r, self, key) ==
  IF add_at_capacity(self)
  THEN [ r |-> r, self |-> self, ret |-> FALSE, exc |-> "IndexError" ]
  ELSE
    LET p == add_pipeline(r, self, key)
        inc == add_increment(p.r, self)
    IN  [ r |-> inc.r, self |-> inc.self, ret |-> all(p.res), exc |-> "none" ]

\* BloomFilter.add
BloomFilter_add(r, self, key) ==
  IF add_at_capacity(self)
  THEN [ r |-> r, self |-> self, ret |-> FALSE, exc |-> "IndexError" ]
  ELSE add_after_pipeline(add_pipeline(r, self, key), self)

RECURSIVE bulk_positions_without_offset(_, _)
\* variant: the slice offset is left out
bulk_positions_without_offset(self, keys) ==
  IF keys = << >> THEN << >>
  ELSE hasher(self.num_slices, self.bits_per_slice, Head(keys))
       \o bulk_positions_without_offset(self, Tail(keys))

RECURSIVE bulk_positions(_, _)
\* the positions bulk_add sets, key after key
bulk_positions(self, keys) ==
  IF keys = << >> THEN << >>
  ELSE slice_positions(hasher(self.num_slices, self.bits_per_slice,
                              Head(keys)), self.bits_per_slice)
       \o bulk_positions(self, Tail(keys))

RECURSIVE bulk_increment_counts_every_key(_, _, _)
\* variant: every group of num_slices results counts one
bulk_increment_counts_every_key(res, buf, num_slices) ==
  IF res = << >> THEN 0
  ELSE LET buf1 == Append(buf, Head(res))
       IN  IF Len(buf1) = num_slices
           THEN 1 + bulk_increment_counts_every_key(Tail(res), << >>,
                                                    num_slices)
           ELSE bulk_increment_counts_every_key(Tail(res), buf1, num_slices)

RECURSIVE bulk_increment(_, _, _)
\* the loop over res: a group of num_slices results that is not all ones
\* counts one
bulk_increment(res, buf, num_slices) ==
  IF res = << >> THEN 0
  ELSE LET buf1 == Append(buf, Head(res))
       IN  IF Len(buf1) = num_slices
           THEN (IF ~all(buf1) THEN 1 ELSE 0)
                + bulk_increment(Tail(res), << >>, num_slices)
           ELSE bulk_increment(Tail(res), buf1, num_slices)

\* BloomFilter.bulk_add: after pipe.execute() has returned p, one HINCRBY
\* by the number of keys whose SETBITs did not all return 1
BloomFilter_bulk_add(r, self, keys) ==
  IF self.count > self.capacity
  THEN [ r |-> r, self |-> self, exc |-> "IndexError" ]
  ELSE LET after_pipeline(p) ==
             LET inc == hincrby(p.r, self.name,
                                bulk_increment(p.res, << >>, self.num_slices))
             IN  [ r |-> inc.r, self |-> [self EXCEPT !.count = inc.value],
                   exc |-> "none" ]
       IN  after_pipeline(
             pipeline_setbit(r, self.name, bulk_positions(self, keys)))

\* variant: only the metadata hash is deleted
BloomFilter_flush_keeps_bits(r, self) ==
  [ r |-> [r EXCEPT !.hashes[self.name] = EmptyHash],
    self |-> [self EXCEPT !.count = 0] ]

\* BloomFilter.flush, with its own pipeline or queued on the caller's: DEL
\* name, DEL bfmeta:name
BloomFilter_flush(r, self) ==
  [ r |-> [r EXCEPT !.bits[self.name] = {},
                    !.hashes[self.name] = EmptyHash,
                    !.ttl.bits = @ \ {self.name},
                    !.ttl.hashes = @ \ {self.name}],
    self |-> [self EXCEPT !.count = 0] ]

\* BloomFilter.expire, with its own pipeline or queued on the caller's
\* EXPIRE does nothing for a key that does not exist, deletes the key when
\* time <= 0, and else gives it a time to live: b is the database after
\* EXPIRE name, the result the database after EXPIRE bfmeta:name
BloomFilter_expire(r, self, time) ==
  LET name == self.name
      expire_hash(b) ==
        IF ~exists(b, name) THEN b
        ELSE IF time <= 0
        THEN [b EXCEPT !.hashes[name] = EmptyHash, !.ttl.hashes = @ \ {name}]
        ELSE [b EXCEPT !.ttl.hashes = @ \cup {name}]
  IN  expire_hash(IF r.bits[name] = {} THEN r
                  ELSE IF time <= 0
                  THEN [r EXCEPT !.bits[name] = {}, !.ttl.bits = @ \ {name}]
                  ELSE [r EXCEPT !.ttl.bits = @ \cup {name}])

(* -------------------------- ScalableBloomFilter ------------------------ *)

\* a handle that has not been constructed
NoScalable ==
  [ name |-> "", error_rate |-> 0, scale |-> 0, ratio |-> 0,
    initial_capacity |-> 0, filters |-> << >> ]

RECURSIVE Digits(_)
\* the decimal digits of i, as the f-string writes them
Digits(i) == IF i < 10 THEN << i >> ELSE Digits(i \div 10) \o << i % 10 >>

RECURSIVE sorted(_)
\* sorted(list(smembers)): the names in increasing byte order; LexLess is
\* bytes a < bytes b, for the digit strings that follow the common prefix
sorted(names) ==
  IF names = {} THEN << >>
  ELSE LET LexLess(a, b) ==
             \E i \in 1..(Min(Len(a), Len(b)) + 1) :
                /\ \A j \in 1..(i - 1) : a[j] = b[j]
                /\ \/ i > Len(a) /\ i <= Len(b)
                   \/ i <= Len(a) /\ i <= Len(b) /\ a[i] < b[i]
           m == CHOOSE x \in names : \A y \in names \ {x} :
                  LexLess(Digits(Suffix(x)), Digits(Suffix(y)))
       IN  << m >> \o sorted(names \ {m})

\* error_rate of the BloomFilter constructor when none is passed (0.001)
DefaultErrorRate == 1000000

\* the floor of a generation's error rate (0.000001)
MinErrorRate == 1000

\* the ceiling of a generation's capacity
MaxGenerationCapacity == 1000000000

RECURSIVE load_filters(_, _, _)
\* [BloomFilter(connection, fn, self.initial_capacity) for fn in filter_names]
load_filters(r, names, capacity) ==
  IF names = << >> THEN [ r |-> r, filters |-> << >>, exc |-> "none" ]
  ELSE LET c == BloomFilter_init(r, Head(names), capacity, DefaultErrorRate)
       IN  IF c.exc # "none"
           THEN [ r |-> c.r, filters |-> << >>, exc |-> c.exc ]
           ELSE LET rest == load_filters(c.r, Tail(names), capacity)
                IN  [ r |-> rest.r, filters |-> << c.self >> \o rest.filters,
                      exc |-> rest.exc ]

\* ScalableBloomFilter._create_meta: HMSET of the four fields
ScalableBloomFilter_create_meta(r, self) ==
  [r EXCEPT !.sbfmeta =
     [ has |-> {"error_rate", "scale", "ratio", "initial_capacity"},
       error_rate |-> self.error_rate, scale |-> self.scale,
       ratio |-> self.ratio, initial_capacity |-> self.initial_capacity ]]

\* __init__ up to EXISTS: the fields of the object, each taken from the
\* hash HGETALL returned where it has the field with a value that is not
\* zero, else from the arguments
scalable_fields(r, initial_capacity, error_rate, scale, ratio) ==
  LET meta == deserialize_hm(r.sbfmeta)
  IN  [ name |-> SBFName,
        error_rate |-> meta_get_or(meta, "error_rate", error_rate),
        scale |-> meta_get_or(meta, "scale", scale),
        ratio |-> meta_get_or(meta, "ratio", ratio),
        initial_capacity |->
          meta_get_or(meta, "initial_capacity", initial_capacity),
        filters |-> << >> ]

\* ScalableBloomFilter.__init__
ScalableBloomFilter_init(r, initial_capacity, error_rate, scale, ratio) ==
  LET self0 ==
        scalable_fields(r, initial_capacity, error_rate, scale, ratio)
      r1 == IF r.sbfmeta.has = {}
            THEN ScalableBloomFilter_create_meta(r, self0) ELSE r
      init_loaded(ld) ==
        IF ld.exc # "none"
        THEN [ r |-> ld.r, self |-> NoScalable, exc |-> ld.exc ]
        ELSE [ r |-> ld.r, self |-> [self0 EXCEPT !.filters = ld.filters],
               exc |-> "none" ]
  IN  init_loaded(
        load_filters(r1, sorted(r1.registry), self0.initial_capacity))

\* SADD self.name bf.name
sadd(r, name) == [r EXCEPT !.registry = @ \cup {name}]

\* _get_next_filter: the constructor call that makes the next generation;
\* the filter the call c has made is appended and registered; at is its
\* place in self.filters
new_generation(r, self, capacity, error_rate) ==
  LET append_generation(c) ==
        IF c.exc # "none"
        THEN [ r |-> c.r, self |-> self, at |-> 0, exc |-> c.exc ]
        ELSE [ r |-> sadd(c.r, c.self.name),
               self |-> [self EXCEPT !.filters = Append(@, c.self)],
               at |-> Len(self.filters) + 1, exc |-> "none" ]
  IN  append_generation(
        BloomFilter_init(r, bf_name(Len(self.filters)), capacity, error_rate))

\* the test on the last filter of the chain that makes a new generation
generation_full(bf) == bf.count >= bf.capacity

\* variant: the scale is left out
next_capacity_unscaled(bf, scale) == Min(bf.capacity, MaxGenerationCapacity)

\* capacity of the generation that follows bf
next_capacity(bf, scale) == Min(bf.capacity * scale, MaxGenerationCapacity)

\* error_rate of the generation that follows bf: bf.error_rate * self.ratio,
\* for a ratio held in millionths that is a whole number of thousandths (the
\* product is formed in two parts to stay within 32 bits), and MinErrorRate
\* at least
next_error_rate(bf, ratio) ==
  Max((bf.error_rate \div 1000) * (ratio \div 1000)
        + ((bf.error_rate % 1000) * (ratio \div 1000)) \div 1000,
      MinErrorRate)

\* ScalableBloomFilter._get_next_filter
ScalableBloomFilter_get_next_filter(r, self) ==
  IF self.filters = << >>
  THEN new_generation(r, self, self.initial_capacity, self.error_rate)
  ELSE LET bf == self.filters[Len(self.filters)]
       IN  IF generation_full(bf)
           THEN new_generation(r, self, next_capacity(bf, self.scale),
                               next_error_rate(bf, self.ratio))
           ELSE [ r |-> r, self |-> self, at |-> Len(self.filters),
                  exc |-> "none" ]

\* ScalableBloomFilter.__contains__
ScalableBloomFilter_contains(r, self, key) ==
  \E i \in 1..Len(self.filters) : BloomFilter_contains(r, self.filters[i], key)

\* variant: no membership test
add_precheck_skipped(r, self, key) == FALSE

\* the membership test that opens ScalableBloomFilter.add
add_precheck(r, self, key) == ScalableBloomFilter_contains(r, self, key)

\* ScalableBloomFilter.add; last line: bf.add(key) on the filter g that
\* _get_next_filter returned; what bf.add returned is returned, and the
\* filter in the chain is the object that bf.add updated
ScalableBloomFilter_add(r, self, key) ==
  LET add_to_filter(g) ==
        IF g.exc # "none"
        THEN [ r |-> g.r, self |-> g.self, ret |-> FALSE, exc |-> g.exc ]
        ELSE LET add_returned(a) ==
                   [ r |-> a.r,
                     self |-> [g.self EXCEPT !.filters[g.at] = a.self],
                     ret |-> a.ret, exc |-> a.exc ]
             IN  add_returned(BloomFilter_add(g.r, g.self.filters[g.at], key))
  IN  IF add_precheck(r, self, key)
      THEN [ r |-> r, self |-> self, ret |-> TRUE, exc |-> "none" ]
      ELSE add_to_filter(ScalableBloomFilter_get_next_filter(r, self))

\* keys[start:stop] of Python, start >= 0; a negative stop counts from the end
PySlice(keys, start, stop) ==
  LET hi == IF stop < 0 THEN Max(Len(keys) + stop, 0) ELSE Min(stop, Len(keys))
      lo == Min(start, Len(keys))
  IN  IF hi <= lo THEN << >> ELSE SubSeq(keys, lo + 1, hi)

\* variant: the whole list is taken
chunk_size_of_whole_list(bf, keys) == Len(keys)

\* variant: the chunk is one key longer than the room left
chunk_size_of_one_more(bf, keys) ==
  Min(bf.capacity - bf.count + 1, Len(keys))

\* chunk_size = min(bf.capacity - bf.count, len(keys))
chunk_size_of(bf, keys) == Min(bf.capacity - bf.count, Len(keys))

RECURSIVE bulk_add_loop(_, _, _, _)
\* the while loop of ScalableBloomFilter.bulk_add, from position index; the
\* body of the loop on the filter g that _get_next_filter returned:
\* bf.bulk_add(chunk) returns as b, index is advanced, and the loop goes on
\* unless b raised
bulk_add_loop(r, self, keys, index) ==
  LET bulk_add_chunk(g) ==
        IF g.exc # "none"
        THEN [ r |-> g.r, self |-> g.self, exc |-> g.exc ]
        ELSE
          LET bf == g.self.filters[g.at]
              size == chunk_size_of(bf, keys)
              chunk == PySlice(keys, index, index + size)
              advance(b) ==
                IF b.exc # "none"
                THEN [ r |-> b.r,
                       self |-> [g.self EXCEPT !.filters[g.at] = b.self],
                       exc |-> b.exc ]
                ELSE bulk_add_loop(b.r,
                                   [g.self EXCEPT !.filters[g.at] = b.self],
                                   keys, index + size)
          IN  advance(BloomFilter_bulk_add(g.r, bf, chunk))
  IN  IF ~(index < Len(keys))
      THEN [ r |-> r, self |-> self, exc |-> "none" ]
      ELSE bulk_add_chunk(ScalableBloomFilter_get_next_filter(r, self))

\* ScalableBloomFilter.bulk_add
ScalableBloomFilter_bulk_add(r, self, keys) == bulk_add_loop(r, self, keys, 0)

\* one pass of the while loop of ScalableBloomFilter.bulk_add on the filter
\* g that _get_next_filter returned, for a chunk of size keys:
\* bf.bulk_add(chunk) returns as b and index is advanced; at is the place in
\* self.filters of the filter that took the chunk
bulk_add_pass(r, self, keys, index) ==
  LET pass_on(g) ==
        IF g.exc # "none"
        THEN [ r |-> g.r, self |-> g.self, at |-> 0, index |-> index,
               exc |-> g.exc ]
        ELSE LET pass_chunk(size) ==
                   LET pass_end(b) ==
                         [ r |-> b.r,
                           self |-> [g.self EXCEPT !.filters[g.at] = b.self],
                           at |-> g.at, index |-> index + size,
                           exc |-> b.exc ]
                   IN  pass_end(
                         BloomFilter_bulk_add(
                           g.r, g.self.filters[g.at],
                           PySlice(keys, index, index + size)))
             IN  pass_chunk(chunk_size_of(g.self.filters[g.at], keys))
  IN  pass_on(ScalableBloomFilter_get_next_filter(r, self))

RECURSIVE flush_filters(_, _)
\* for bf in self.filters: bf.flush(pipe)
flush_filters(r, filters) ==
  IF filters = << >> THEN r
  ELSE flush_filters(BloomFilter_flush(r, Head(filters)).r, Tail(filters))

\* ScalableBloomFilter.flush
ScalableBloomFilter_flush(r, self) ==
  LET r1 == [r EXCEPT !.registry = {}, !.sbfmeta = EmptySHash,
                      !.ttl.registry = FALSE, !.ttl.sbfmeta = FALSE]
      r2 == flush_filters(r1, self.filters)
      self1 == [self EXCEPT !.filters = << >>]
  IN  [ r |-> ScalableBloomFilter_create_meta(r2, self1), self |-> self1 ]

RECURSIVE expire_filters(_, _, _)
\* for bf in self.filters: bf.expire(time, pipe)
expire_filters(r, filters, time) ==
  IF filters = << >> THEN r
  ELSE expire_filters(BloomFilter_expire(r, Head(filters), time),
                      Tail(filters), time)

\* ScalableBloomFilter.expire
ScalableBloomFilter_expire(r, self, time) ==
  LET expire_sbfmeta(s) ==
        IF s.sbfmeta.has = {} THEN s
        ELSE IF time <= 0
        THEN [s EXCEPT !.sbfmeta = EmptySHash, !.ttl.sbfmeta = FALSE]
        ELSE [s EXCEPT !.ttl.sbfmeta = TRUE]
  IN  expire_filters(
        expire_sbfmeta(
          IF r.registry = {} THEN r
          ELSE IF time <= 0
          THEN [r EXCEPT !.registry = {}, !.ttl.registry = FALSE]
          ELSE [r EXCEPT !.ttl.registry = TRUE]),
        self.filters, time)

RECURSIVE ScalableBloomFilter_count(_)
\* the count property: sum([bf.count for bf in self.filters])
ScalableBloomFilter_count(self) ==
  IF self.filters = << >> THEN 0
  ELSE Head(self.filters).count
       + ScalableBloomFilter_count([self EXCEPT !.filters = Tail(@)])

(* ------------------- loonfilter/loon.py: BloomFilter ------------------- *)

\* no loon.py object has been constructed; count_is_pipeline tells that
\* self.count holds the pipeline object bulk_add assigned to it
NoLoon ==
  [ name |-> "", error_rate |-> 0, num_slices |-> 0, bits_per_slice |-> 0,
    capacity |-> 0, num_bits |-> 0, count |-> 0, count_is_pipeline |-> FALSE ]

\* int(meta.get(b'field').decode()) or default, for a field the hash has
loon_meta_get_or(meta, field, default) == OrElse(TRUE, meta[field], default)

\* loon.py BloomFilter.__init__: meta.get of a field the hash does not have
\* is None, and None.decode() raises AttributeError
loon_BloomFilter_init(r, name, capacity, error_rate) ==
  IF ~ValidArguments(capacity, error_rate)
  THEN [ r |-> r, self |-> NoLoon, exc |-> "ValueError" ]
  ELSE IF ~(MetaFields \subseteq hgetall(r, name).has)
  THEN [ r |-> r, self |-> NoLoon, exc |-> "AttributeError" ]
  ELSE
    LET num_slices == CeilLog2Inv(error_rate, 0)
        bits_per_slice == BitsPerSlice(capacity, error_rate, num_slices)
        meta == hgetall(r, name)
        self ==
          [ name |-> name,
            error_rate |-> loon_meta_get_or(meta, "error_rate", error_rate),
            num_slices |-> loon_meta_get_or(meta, "num_slices", num_slices),
            bits_per_slice |->
              loon_meta_get_or(meta, "bits_per_slice", bits_per_slice),
            capacity |-> loon_meta_get_or(meta, "capacity", capacity),
            num_bits |->
              loon_meta_get_or(meta, "num_bits", num_slices * bits_per_slice),
            count |-> loon_meta_get_or(meta, "count", 0),
            count_is_pipeline |-> FALSE ]
    IN  [ r |-> IF ~exists(r, name)
                THEN BloomFilter_create_meta(r, self) ELSE r,
          self |-> self, exc |-> "none" ]

\* the positions loon.py __contains__ reads: offset + index, offset advanced
\* by bits_per_slice after each index
loon_contains_positions(self, key) ==
  slice_positions(hasher(self.num_slices, self.bits_per_slice, key),
                  self.bits_per_slice)

\* loon.py BloomFilter.__contains__
loon_BloomFilter_contains(r, self, key) ==
  all(pipeline_getbit(r, self.name, loon_contains_positions(self, key)))

\* loon.py BloomFilter.add: a count that is a pipeline object cannot be
\* compared with the capacity
loon_BloomFilter_add(r, self, key) ==
  IF self.count_is_pipeline
  THEN [ r |-> r, self |-> self, ret |-> FALSE, exc |-> "TypeError" ]
  ELSE IF self.count > self.capacity
  THEN [ r |-> r, self |-> self, ret |-> FALSE, exc |-> "IndexError" ]
  ELSE add_after_pipeline(
         pipeline_setbit(r, self.name, loon_contains_positions(self, key)),
         self)

RECURSIVE loon_bulk_positions(_, _)
\* the positions loon.py bulk_add sets, key after key: offset is set to 0
\* for each key and is not advanced in the loop over the indexes
loon_bulk_positions(self, keys) ==
  IF keys = << >> THEN << >>
  ELSE hasher(self.num_slices, self.bits_per_slice, Head(keys))
       \o loon_bulk_positions(self, Tail(keys))

\* loon.py BloomFilter.bulk_add: the SETBITs and HSET count len(set(keys))
\* in one pipeline; self.count is bound to what pipe.hset returns, the
\* pipeline
loon_BloomFilter_bulk_add(r, self, keys) ==
  IF self.count_is_pipeline \/ self.count # 0
  THEN [ r |-> r, self |-> self, exc |-> "IndexError" ]
  ELSE [ r |-> [ pipeline_setbit(r, self.name,
                                 loon_bulk_positions(self, keys)).r
                 EXCEPT !.hashes[self.name] =
                   [@ EXCEPT !.has = @ \cup {"count"},
                             !.count = Cardinality(Range(keys))] ],
         self |-> [self EXCEPT !.count_is_pipeline = TRUE],
         exc |-> "none" ]

(* -------------------------------- state -------------------------------- *)

\* client objects bound to the BloomFilter name BFName
BFHandles == {1, 2}

\* client objects bound to the ScalableBloomFilter name SBFName
SBFHandles == {1, 2}

\* constructor arguments offered to BloomFilter: capacity 0, error rates 0
\* and 1.0 are the invalid ones
Capacities == {0, 1, 2}

ErrorRates == {0, Thousandths(250), One}

VARIABLES
  redis,    \* the database: bit arrays, metadata hashes, registry set
  bf,       \* BFHandles -> BloomFilter object (NoFilter before construction)
  sbf,      \* SBFHandles -> ScalableBloomFilter object
  pc,       \* BFHandles -> where the call of the handle's client stands
            \* between two round trips to the server, and what it holds
  last,     \* the call that returned last when it was made in one step, its
            \* arguments and its outcome
            \* (of a key list: the keys in it)
  added,    \* BFHandles -> keys written through the object since the last flush
  sadded,   \* SBFHandles -> the same for the scalable filter
  novel,    \* add batches that found a bit unset since the last flush or
            \* expire
  bulk,     \* the ScalableBloomFilter.bulk_add call that is between two
            \* passes of its loop (NoBulk when none is): its list, its index,
            \* the place of the filter of the last pass, the passes made
  loon,     \* the BloomFilter object of loonfilter/loon.py (NoLoon before
            \* construction)
  spc       \* SBFHandles -> where the ScalableBloomFilter call of the
            \* handle's client stands between two round trips to the server,
            \* and what it holds

vars == << redis, bf, sbf, pc, last, added, sadded, novel, bulk, loon, spc >>

\* no call is under way; of a call that is: the round trip it makes next
\* (at), the key of add, the increment bulk_add has counted, the object
\* under construction and the arguments the constructor was called with
Idle ==
  [ at |-> "idle", key |-> 0, inc |-> 0, self |-> NoFilter,
    capacity |-> 0, error_rate |-> 0 ]

NoCall ==
  [ op |-> "none", kind |-> "none", h |-> 0, key |-> 0, keys |-> {},
    ret |-> FALSE, exc |-> "none", capacity |-> 0, error_rate |-> 0,
    scale |-> 0, ratio |-> 0, prior |-> {}, again |-> FALSE ]

\* no ScalableBloomFilter call is under way; of a call that is: the round
\* trip it makes next (at), the method (op), the key of add, the object
\* __init__ is building (self) and the names it has still to load, the
\* BloomFilter a constructor is building (new), the place in self.filters of
\* the filter that is read or written next (i)
SIdle ==
  [ at |-> "idle", op |-> "none", key |-> 0, self |-> NoScalable,
    names |-> << >>, new |-> NoFilter, i |-> 0 ]

\* no bulk_add call is between two passes of its loop
NoBulk ==
  [ active |-> FALSE, h |-> 0, keys |-> << >>, index |-> 0, at |-> 0,
    passes |-> 0 ]

Init ==
  /\ redis = EmptyRedis
  /\ bf = [ h \in BFHandles |-> NoFilter ]
  /\ sbf = [ s \in SBFHandles |-> NoScalable ]
  /\ pc = [ h \in BFHandles |-> Idle ]
  /\ last = NoCall
  /\ added = [ h \in BFHandles |-> {} ]
  /\ sadded = [ s \in SBFHandles |-> {} ]
  /\ novel = 0
  /\ bulk = NoBulk
  /\ loon = NoLoon
  /\ spc = [ s \in SBFHandles |-> SIdle ]

(* -------------------------- BloomFilter actions ------------------------ *)

\* bf[h] = BloomFilter(connection, BFName, capacity, error_rate); a
\* constructor that raises leaves the earlier object bound
Construct(h, capacity, error_rate) ==
  /\ pc[h] = Idle
  /\ \E c \in { BloomFilter_init(redis, BFName, capacity, error_rate) } :
        /\ redis' = c.r
        /\ bf' = IF c.exc = "none" THEN [bf EXCEPT ![h] = c.self] ELSE bf
        /\ added' = IF c.exc = "none" THEN [added EXCEPT ![h] = {}] ELSE added
        /\ last' = [NoCall EXCEPT !.op = "init", !.kind = "bf", !.h = h,
                       !.exc = c.exc, !.capacity = capacity,
                       !.error_rate = error_rate]
        /\ UNCHANGED << sbf, pc, sadded, novel, bulk, loon, spc >>

\* bf[h].add(key)
Add(h, key) ==
  /\ bf[h] # NoFilter
  /\ pc[h] = Idle
  /\ \E a \in { BloomFilter_add(redis, bf[h], key) } :
        /\ redis' = a.r
        /\ bf' = [bf EXCEPT ![h] = a.self]
        /\ added' = IF a.exc = "none"
                     THEN [added EXCEPT ![h] = @ \cup {key}] ELSE added
        /\ last' = [NoCall EXCEPT !.op = "add", !.kind = "bf", !.h = h,
                       !.key = key, !.ret = a.ret, !.exc = a.exc,
                       !.again = /\ last.op = "add" /\ last.kind = "bf"
                                 /\ last.h = h /\ last.key = key
                                 /\ last.exc = "none"]
        /\ UNCHANGED << sbf, pc, sadded, novel, bulk, loon, spc >>

\* bf[h].bulk_add(keys)
BulkAdd(h, keys) ==
  /\ bf[h] # NoFilter
  /\ pc[h] = Idle
  /\ \E b \in { BloomFilter_bulk_add(redis, bf[h], keys) } :
        /\ redis' = b.r
        /\ bf' = [bf EXCEPT ![h] = b.self]
        /\ added' = IF b.exc = "none"
                     THEN [added EXCEPT ![h] = @ \cup Range(keys)] ELSE added
        /\ last' = [NoCall EXCEPT !.op = "bulk_add", !.kind = "bf", !.h = h,
                       !.keys = Range(keys), !.exc = b.exc]
        /\ UNCHANGED << sbf, pc, sadded, novel, bulk, loon, spc >>

\* bf[h].flush()
Flush(h) ==
  /\ bf[h] # NoFilter
  /\ pc[h] = Idle
  /\ \E f \in { BloomFilter_flush(redis, bf[h]) } :
        /\ redis' = f.r
        /\ bf' = [bf EXCEPT ![h] = f.self]
        /\ added' = [ g \in BFHandles |-> {} ]
        /\ last' = [NoCall EXCEPT !.op = "flush", !.kind = "bf", !.h = h,
                       !.prior = added[h]]
        /\ novel' = 0
        /\ UNCHANGED << sbf, pc, sadded, bulk, loon, spc >>

\* the times to live offered to expire: 0 removes the keys at once
ExpireTimes == {0, 1}

\* bf[h].expire(time)
Expire(h, time) ==
  /\ bf[h] # NoFilter
  /\ pc[h] = Idle
  /\ redis' = BloomFilter_expire(redis, bf[h], time)
  /\ added' = [ g \in BFHandles |-> {} ]
  /\ novel' = 0
  /\ last' = [NoCall EXCEPT !.op = "expire", !.kind = "bf", !.h = h]
  /\ UNCHANGED << bf, sbf, pc, sadded, bulk, loon, spc >>

\* time passes until the time to live that expire has set runs out
Expired ==
  /\ redis.ttl # NoTtl
  /\ redis' =
       [ bits     |-> [ n \in FilterNames |->
                          IF n \in redis.ttl.bits THEN {}
                          ELSE redis.bits[n] ],
         hashes   |-> [ n \in FilterNames |->
                          IF n \in redis.ttl.hashes THEN EmptyHash
                          ELSE redis.hashes[n] ],
         registry |-> IF redis.ttl.registry THEN {} ELSE redis.registry,
         sbfmeta  |-> IF redis.ttl.sbfmeta THEN EmptySHash
                      ELSE redis.sbfmeta,
         ttl      |-> NoTtl ]
  /\ added' = [ g \in BFHandles |-> {} ]
  /\ sadded' = [ g \in SBFHandles |-> {} ]
  /\ novel' = 0
  /\ last' = NoCall
  /\ UNCHANGED << bf, sbf, pc, bulk, loon, spc >>

(* --------- several clients, calls interleaved at their round trips ----- *)

\* Construct, Add, BulkAdd and Flush above are whole calls: what a call does
\* when no other client reaches the server before it returns. Flush and
\* Expire make one round trip, a pipeline, and are whole in every schedule.
\* The constructor makes three round trips (HGETALL, EXISTS, HMSET), add and
\* bulk_add two (the pipeline, HINCRBY); the actions below make one round
\* trip each, so that other clients act between them.

\* constructor arguments of the clients that share the filter
SharedCapacities == {1, 2}

SharedErrorRates == {Thousandths(250), Thousandths(500)}

\* add is called: the capacity check on the local count; a call that
\* raises has returned
AddCall(h, key) ==
  /\ bf[h] # NoFilter
  /\ pc[h] = Idle
  /\ pc' = IF add_at_capacity(bf[h])
            THEN pc
            ELSE [pc EXCEPT ![h] = [Idle EXCEPT !.at = "pipeline",
                                                !.key = key]]
  /\ last' = IF add_at_capacity(bf[h])
              THEN [NoCall EXCEPT !.op = "add", !.kind = "bf", !.h = h,
                                  !.key = key, !.exc = "IndexError"]
              ELSE NoCall
  /\ UNCHANGED << redis, bf, sbf, added, sadded, novel, bulk, loon, spc >>

\* pipe.execute(): the SETBITs of the call run as one batch; a batch that is
\* all ones returns True
AddPipeline(h) ==
  /\ pc[h].at = "pipeline"
  /\ \E p \in { add_pipeline(redis, bf[h], pc[h].key) } :
        /\ redis' = p.r
        /\ added' = [added EXCEPT ![h] = @ \cup {pc[h].key}]
        /\ IF all(p.res)
            THEN /\ pc' = [pc EXCEPT ![h] = Idle]
                 /\ novel' = novel
            ELSE /\ pc' = [pc EXCEPT ![h].at = "hincrby"]
                 /\ novel' = novel + 1
        /\ last' = NoCall
        /\ UNCHANGED << bf, sbf, sadded, bulk, loon, spc >>

\* the HINCRBY round trip, and the return
AddIncrement(h) ==
  /\ pc[h].at = "hincrby"
  /\ \E inc \in { add_increment(redis, bf[h]) } :
        /\ redis' = inc.r
        /\ bf' = [bf EXCEPT ![h] = inc.self]
        /\ pc' = [pc EXCEPT ![h] = Idle]
        /\ last' = NoCall
        /\ UNCHANGED << sbf, added, sadded, novel, bulk, loon, spc >>

\* bulk_add is called: the capacity check on the local count and
\* pipe.execute(), the SETBITs of all the keys as one batch; the increment is
\* counted from the results; a call that raises has returned
BulkAddPipeline(h, keys) ==
  /\ bf[h] # NoFilter
  /\ pc[h] = Idle
  /\ IF bf[h].count > bf[h].capacity
     THEN UNCHANGED << redis, pc, added >>
     ELSE \E p \in { pipeline_setbit(redis, bf[h].name,
                                      bulk_positions(bf[h], keys)) } :
            /\ redis' = p.r
            /\ pc' = [pc EXCEPT ![h] =
                        [Idle EXCEPT !.at = "bulk_hincrby",
                                     !.inc = bulk_increment(p.res, << >>,
                                                            bf[h].num_slices)]]
            /\ added' = [added EXCEPT ![h] = @ \cup Range(keys)]
  /\ last' = IF bf[h].count > bf[h].capacity
              THEN [NoCall EXCEPT !.op = "bulk_add", !.kind = "bf", !.h = h,
                                  !.keys = Range(keys), !.exc = "IndexError"]
              ELSE NoCall
  /\ UNCHANGED << bf, sbf, sadded, novel, bulk, loon, spc >>

\* the HINCRBY round trip of bulk_add, and the return
BulkAddIncrement(h) ==
  /\ pc[h].at = "bulk_hincrby"
  /\ \E inc \in { hincrby(redis, bf[h].name, pc[h].inc) } :
        /\ redis' = inc.r
        /\ bf' = [bf EXCEPT ![h].count = inc.value]
        /\ pc' = [pc EXCEPT ![h] = Idle]
        /\ last' = NoCall
        /\ UNCHANGED << sbf, added, sadded, novel, bulk, loon, spc >>

\* the constructor is called: the argument checks, the HGETALL round trip,
\* the fields of the object and the size check
ConstructRead(h, capacity, error_rate) ==
  /\ pc[h] = Idle
  /\ IF ~ValidArguments(capacity, error_rate)
     THEN pc' = pc
     ELSE \E self \in { init_fields(redis, BFName, capacity, error_rate) } :
            pc' = IF TooLarge(self.num_bits)
                  THEN pc
                  ELSE [pc EXCEPT ![h] =
                          [Idle EXCEPT !.at = "exists", !.self = self,
                                       !.capacity = capacity,
                                       !.error_rate = error_rate]]
  /\ last' = NoCall
  /\ UNCHANGED << redis, bf, sbf, added, sadded, novel, bulk, loon, spc >>

\* the EXISTS round trip of the constructor: when the hash exists the
\* constructor returns and the object is bound to the handle
ConstructExists(h) ==
  /\ pc[h].at = "exists"
  /\ IF exists(redis, pc[h].self.name)
     THEN /\ bf' = [bf EXCEPT ![h] = pc[h].self]
          /\ added' = [added EXCEPT ![h] = {}]
          /\ pc' = [pc EXCEPT ![h] = Idle]
     ELSE /\ pc' = [pc EXCEPT ![h].at = "hmset"]
          /\ UNCHANGED << bf, added >>
  /\ last' = NoCall
  /\ UNCHANGED << redis, sbf, sadded, novel, bulk, loon, spc >>

\* the HMSET round trip of _create_meta, and the return
ConstructCreate(h) ==
  /\ pc[h].at = "hmset"
  /\ redis' = BloomFilter_create_meta(redis, pc[h].self)
  /\ bf' = [bf EXCEPT ![h] = pc[h].self]
  /\ added' = [added EXCEPT ![h] = {}]
  /\ pc' = [pc EXCEPT ![h] = Idle]
  /\ last' = NoCall
  /\ UNCHANGED << sbf, sadded, novel, bulk, loon, spc >>

\* keys of which enough set a new bit, one after the other, to take the count
\* of a filter of capacity 1 to 3 and of a filter of capacity 2 to 4
RaceKeys == {1, 2, 3, 4}

\* the round trips of the clients of the name, interleaved freely: nothing
\* orders the HGETALL, EXISTS and HMSET of one client's constructor against
\* the round trips of another client's constructor or add call. A client
\* constructs its object once
NextShared ==
  \/ \E h \in BFHandles, c \in SharedCapacities, e \in SharedErrorRates :
        bf[h] = NoFilter /\ ConstructRead(h, c, e)
  \/ \E h \in BFHandles : ConstructExists(h)
  \/ \E h \in BFHandles : ConstructCreate(h)
  \/ \E h \in BFHandles, k \in RaceKeys : AddCall(h, k)
  \/ \E h \in BFHandles : AddPipeline(h)
  \/ \E h \in BFHandles : AddIncrement(h)

SpecShared == Init /\ [][NextShared]_vars

(* ---------------------- ScalableBloomFilter actions -------------------- *)

\* constructor arguments offered to ScalableBloomFilter
InitialCapacities == {1, 2}

SErrorRates == {Thousandths(500)}

Scales == {1, 2}

Ratios == {900000}

\* sbf[s] = ScalableBloomFilter(connection, SBFName, initial_capacity,
\*                              error_rate, scale, ratio)
SConstruct(s, initial_capacity, error_rate, scale, ratio) ==
  /\ s \in SBFHandles
  /\ \E c \in { ScalableBloomFilter_init(redis, initial_capacity,
                                          error_rate, scale, ratio) } :
        /\ redis' = c.r
        /\ sbf' = IF c.exc = "none" THEN [sbf EXCEPT ![s] = c.self] ELSE sbf
        /\ last' = [NoCall EXCEPT !.op = "init", !.kind = "sbf", !.h = s,
                       !.exc = c.exc, !.capacity = initial_capacity,
                       !.error_rate = error_rate, !.scale = scale,
                       !.ratio = ratio]
        /\ UNCHANGED << bf, pc, added, sadded, novel, bulk, loon, spc >>

\* the bound of the chains: a step that makes the chain of sbf[s] longer
\* is taken when the chain it makes has at most limit filters; a step that
\* makes no generation is always taken
GrowsWithin(s, limit) ==
  Len(sbf'[s].filters) > Len(sbf[s].filters)
    => Len(sbf'[s].filters) <= limit

\* sbf[s].add(key)
SAdd(s, key) ==
  /\ sbf[s] # NoScalable
  /\ \E a \in { ScalableBloomFilter_add(redis, sbf[s], key) } :
        /\ redis' = a.r
        /\ sbf' = [sbf EXCEPT ![s] = a.self]
        /\ sadded' = IF a.exc = "none"
                      THEN [sadded EXCEPT ![s] = @ \cup {key}] ELSE sadded
        /\ last' = [NoCall EXCEPT !.op = "add", !.kind = "sbf", !.h = s,
                       !.key = key, !.ret = a.ret, !.exc = a.exc]
        /\ UNCHANGED << bf, pc, added, novel, bulk, loon, spc >>

\* sbf[s].bulk_add(keys)
SBulkAdd(s, keys) ==
  /\ sbf[s] # NoScalable
  /\ \E b \in { ScalableBloomFilter_bulk_add(redis, sbf[s], keys) } :
        /\ redis' = b.r
        /\ sbf' = [sbf EXCEPT ![s] = b.self]
        /\ sadded' = IF b.exc = "none"
                      THEN [sadded EXCEPT ![s] = @ \cup Range(keys)] ELSE sadded
        /\ last' = [NoCall EXCEPT !.op = "bulk_add", !.kind = "sbf", !.h = s,
                       !.keys = Range(keys), !.exc = b.exc]
        /\ UNCHANGED << bf, pc, added, novel, bulk, loon, spc >>

\* sbf[s].flush()
SFlush(s) ==
  /\ sbf[s] # NoScalable
  /\ \E f \in { ScalableBloomFilter_flush(redis, sbf[s]) } :
        /\ redis' = f.r
        /\ sbf' = [sbf EXCEPT ![s] = f.self]
        /\ sadded' = [ g \in SBFHandles |-> {} ]
        /\ last' = [NoCall EXCEPT !.op = "flush", !.kind = "sbf", !.h = s,
                       !.prior = sadded[s]]
        /\ UNCHANGED << bf, pc, added, novel, bulk, loon, spc >>

\* sbf[s].expire(time)
SExpire(s, time) ==
  /\ sbf[s] # NoScalable
  /\ spc[s] = SIdle
  /\ redis' = ScalableBloomFilter_expire(redis, sbf[s], time)
  /\ sadded' = [ g \in SBFHandles |-> {} ]
  /\ last' = [NoCall EXCEPT !.op = "expire", !.kind = "sbf", !.h = s]
  /\ UNCHANGED << bf, sbf, pc, added, novel, bulk, loon, spc >>

(* ----- ScalableBloomFilter calls, one round trip to the server at a time -- *)

\* SConstruct, SAdd, SBulkAdd and SFlush above are whole calls: what a call
\* does when no other client reaches the server and no key expires before it
\* returns. The actions below make one round trip each. __init__ sends
\* HGETALL, EXISTS, HMSET when the hash is missing, SMEMBERS, and then
\* constructs a BloomFilter for every name (HGETALL, EXISTS, HMSET when the
\* hash is missing); add sends one pipeline of GETBITs for each filter from
\* the last one back, then constructs the next generation when one is due
\* and registers it (SADD), then the pipeline of SETBITs and HINCRBY; flush
\* sends a pipeline and HMSET; expire sends one pipeline.

\* ScalableBloomFilter(...) is called: the HGETALL round trip and the fields
\* of the object
SInitRead(s, initial_capacity, error_rate, scale, ratio) ==
  /\ spc[s] = SIdle
  /\ spc' = [spc EXCEPT ![s] =
               [SIdle EXCEPT !.at = "init_exists", !.op = "init",
                             !.self = scalable_fields(redis, initial_capacity,
                                                      error_rate, scale,
                                                      ratio)]]
  /\ last' = NoCall
  /\ UNCHANGED << redis, bf, sbf, pc, added, sadded, novel, bulk, loon >>

\* the EXISTS round trip of __init__
SInitExists(s) ==
  /\ spc[s].at = "init_exists"
  /\ spc' = [spc EXCEPT ![s].at = IF redis.sbfmeta.has # {}
                                  THEN "smembers" ELSE "init_hmset"]
  /\ last' = NoCall
  /\ UNCHANGED << redis, bf, sbf, pc, added, sadded, novel, bulk, loon >>

\* the HMSET round trip of _create_meta, called by __init__
SInitCreate(s) ==
  /\ spc[s].at = "init_hmset"
  /\ redis' = ScalableBloomFilter_create_meta(redis, spc[s].self)
  /\ spc' = [spc EXCEPT ![s].at = "smembers"]
  /\ last' = NoCall
  /\ UNCHANGED << bf, sbf, pc, added, sadded, novel, bulk, loon >>

\* the SMEMBERS round trip of __init__: the names sorted; with no name the
\* constructor returns and the object is bound to the handle
SInitMembers(s) ==
  /\ spc[s].at = "smembers"
  /\ \E names \in { sorted(redis.registry) } :
        IF names = << >>
        THEN /\ sbf' = [sbf EXCEPT ![s] = spc[s].self]
             /\ spc' = [spc EXCEPT ![s] = SIdle]
        ELSE /\ sbf' = sbf
             /\ spc' = [spc EXCEPT ![s].at = "filter_read",
                                   ![s].names = names]
  /\ last' = NoCall
  /\ UNCHANGED << redis, bf, pc, added, sadded, novel, bulk, loon >>

\* a BloomFilter constructor called by __init__ (for the next name, with
\* self.initial_capacity and the default error rate) or by _get_next_filter
\* (for bf<len(self.filters)>): the argument checks, the HGETALL round trip,
\* the fields of the filter and the size check; a constructor that raises
\* ends the call
SFilterRead(s) ==
  /\ spc[s].at = "filter_read"
  /\ LET init == spc[s].op = "init"
         self == IF init THEN spc[s].self ELSE sbf[s]
         first == init \/ self.filters = << >>
         name == IF init THEN Head(spc[s].names)
                 ELSE bf_name(Len(self.filters))
         capacity == IF first THEN self.initial_capacity
                     ELSE next_capacity(self.filters[Len(self.filters)],
                                        self.scale)
         error_rate == IF init THEN DefaultErrorRate
                       ELSE IF first THEN self.error_rate
                       ELSE next_error_rate(self.filters[Len(self.filters)],
                                            self.ratio)
         raised == [NoCall EXCEPT !.op = spc[s].op, !.kind = "sbf", !.h = s,
                                  !.key = spc[s].key, !.exc = "ValueError"]
     IN  IF ~ValidArguments(capacity, error_rate)
         THEN spc' = [spc EXCEPT ![s] = SIdle] /\ last' = raised
         ELSE \E new \in { init_fields(redis, name, capacity, error_rate) } :
                IF TooLarge(new.num_bits)
                THEN spc' = [spc EXCEPT ![s] = SIdle] /\ last' = raised
                ELSE /\ spc' = [spc EXCEPT ![s].at = "filter_exists",
                                           ![s].new = new]
                     /\ last' = NoCall
  /\ UNCHANGED << redis, bf, sbf, pc, added, sadded, novel, bulk, loon >>

\* the BloomFilter constructor has returned the filter: __init__ puts it on
\* the list it is building and goes on with the next name, or returns after
\* the last one and the object is bound to the handle; _get_next_filter
\* appends it to self.filters and has it to register
FilterMade(s) ==
  IF spc[s].op = "init"
  THEN LET self == [spc[s].self EXCEPT !.filters = Append(@, spc[s].new)]
           rest == Tail(spc[s].names)
       IN  IF rest = << >>
           THEN /\ sbf' = [sbf EXCEPT ![s] = self]
                /\ spc' = [spc EXCEPT ![s] = SIdle]
           ELSE /\ sbf' = sbf
                /\ spc' = [spc EXCEPT ![s].at = "filter_read",
                                      ![s].self = self, ![s].names = rest,
                                      ![s].new = NoFilter]
  ELSE /\ sbf' = [sbf EXCEPT ![s].filters = Append(@, spc[s].new)]
       /\ spc' = [spc EXCEPT ![s].at = "sadd", ![s].new = NoFilter]

\* the EXISTS round trip of the BloomFilter constructor: when the hash exists
\* the constructor returns
SFilterExists(s) ==
  /\ spc[s].at = "filter_exists"
  /\ IF exists(redis, spc[s].new.name)
     THEN FilterMade(s)
     ELSE sbf' = sbf /\ spc' = [spc EXCEPT ![s].at = "filter_hmset"]
  /\ last' = NoCall
  /\ UNCHANGED << redis, bf, pc, added, sadded, novel, bulk, loon >>

\* the HMSET round trip of BloomFilter._create_meta, and the constructor's
\* return
SFilterCreate(s) ==
  /\ spc[s].at = "filter_hmset"
  /\ redis' = BloomFilter_create_meta(redis, spc[s].new)
  /\ FilterMade(s)
  /\ last' = NoCall
  /\ UNCHANGED << bf, pc, added, sadded, novel, bulk, loon >>

\* the SADD round trip of _get_next_filter, and bf.add(key) on the new
\* filter up to its pipeline: the capacity check on the count the constructor
\* read
SRegister(s) ==
  /\ spc[s].at = "sadd"
  /\ redis' = sadd(redis, sbf[s].filters[Len(sbf[s].filters)].name)
  /\ IF add_at_capacity(sbf[s].filters[Len(sbf[s].filters)])
     THEN /\ spc' = [spc EXCEPT ![s] = SIdle]
          /\ last' = [NoCall EXCEPT !.op = "add", !.kind = "sbf", !.h = s,
                                    !.key = spc[s].key, !.exc = "IndexError"]
     ELSE /\ spc' = [spc EXCEPT ![s].at = "pipeline",
                                ![s].i = Len(sbf[s].filters)]
          /\ last' = NoCall
  /\ UNCHANGED << bf, sbf, pc, added, sadded, novel, bulk, loon >>

\* sbf[s].add(key) is called: __contains__ begins with the last filter; with
\* no filter _get_next_filter constructs bf0
SAddCall(s, key) ==
  /\ sbf[s] # NoScalable
  /\ spc[s] = SIdle
  /\ spc' = [spc EXCEPT ![s] =
               IF sbf[s].filters = << >>
               THEN [SIdle EXCEPT !.at = "filter_read", !.op = "add",
                                  !.key = key]
               ELSE [SIdle EXCEPT !.at = "contains", !.op = "add",
                                  !.key = key, !.i = Len(sbf[s].filters)]]
  /\ last' = NoCall
  /\ UNCHANGED << redis, bf, sbf, pc, added, sadded, novel, bulk, loon >>

\* key in f, the pipeline of GETBITs of one filter: a filter that has the
\* key makes add return True; after the first filter of the list
\* _get_next_filter constructs a generation when the last filter is full,
\* and else bf.add(key) on the last filter goes up to its pipeline. A chain
\* grows to MaxGenerations filters
SContains(s) ==
  /\ spc[s].at = "contains"
  /\ LET bf_last == sbf[s].filters[Len(sbf[s].filters)]
     IN  IF BloomFilter_contains(redis, sbf[s].filters[spc[s].i], spc[s].key)
         THEN /\ spc' = [spc EXCEPT ![s] = SIdle]
              /\ sadded' = [sadded EXCEPT ![s] = @ \cup {spc[s].key}]
              /\ last' = NoCall
         ELSE /\ sadded' = sadded
              /\ IF spc[s].i > 1
                 THEN /\ spc' = [spc EXCEPT ![s].i = @ - 1]
                      /\ last' = NoCall
                 ELSE IF generation_full(bf_last)
                 THEN /\ Len(sbf[s].filters) < MaxGenerations
                      /\ spc' = [spc EXCEPT ![s].at = "filter_read",
                                            ![s].i = 0]
                      /\ last' = NoCall
                 ELSE IF add_at_capacity(bf_last)
                 THEN /\ spc' = [spc EXCEPT ![s] = SIdle]
                      /\ last' = [NoCall EXCEPT !.op = "add", !.kind = "sbf",
                                    !.h = s, !.key = spc[s].key,
                                    !.exc = "IndexError"]
                 ELSE /\ spc' = [spc EXCEPT ![s].at = "pipeline",
                                            ![s].i = Len(sbf[s].filters)]
                      /\ last' = NoCall
  /\ UNCHANGED << redis, bf, sbf, pc, added, novel, bulk, loon >>

\* pipe.execute() of bf.add: the SETBITs of the key run as one batch on the
\* filter _get_next_filter returned; a batch that is all ones returns True
SAddPipeline(s) ==
  /\ spc[s].at = "pipeline"
  /\ \E p \in { add_pipeline(redis, sbf[s].filters[spc[s].i], spc[s].key) } :
        /\ redis' = p.r
        /\ IF all(p.res)
            THEN /\ spc' = [spc EXCEPT ![s] = SIdle]
                 /\ sadded' = [sadded EXCEPT ![s] = @ \cup {spc[s].key}]
            ELSE /\ spc' = [spc EXCEPT ![s].at = "hincrby"]
                 /\ sadded' = sadded
  /\ last' = NoCall
  /\ UNCHANGED << bf, sbf, pc, added, novel, bulk, loon >>

\* the HINCRBY round trip of bf.add, and the return of False
SAddIncrement(s) ==
  /\ spc[s].at = "hincrby"
  /\ \E inc \in { add_increment(redis, sbf[s].filters[spc[s].i]) } :
        /\ redis' = inc.r
        /\ sbf' = [sbf EXCEPT ![s].filters[spc[s].i] = inc.self]
  /\ spc' = [spc EXCEPT ![s] = SIdle]
  /\ sadded' = [sadded EXCEPT ![s] = @ \cup {spc[s].key}]
  /\ last' = NoCall
  /\ UNCHANGED << bf, pc, added, novel, bulk, loon >>

\* sbf[s].flush() is called: pipe.execute() deletes the registry, the hash
\* sbfmeta and the keys of the filters of self.filters, and the list is
\* emptied
SFlushPipeline(s) ==
  /\ sbf[s] # NoScalable
  /\ spc[s] = SIdle
  /\ redis' = flush_filters([redis EXCEPT !.registry = {},
                                          !.sbfmeta = EmptySHash,
                                          !.ttl.registry = FALSE,
                                          !.ttl.sbfmeta = FALSE],
                            sbf[s].filters)
  /\ sbf' = [sbf EXCEPT ![s].filters = << >>]
  /\ spc' = [spc EXCEPT ![s] = [SIdle EXCEPT !.at = "flush_hmset",
                                             !.op = "flush"]]
  /\ sadded' = [ g \in SBFHandles |-> {} ]
  /\ last' = NoCall
  /\ UNCHANGED << bf, pc, added, novel, bulk, loon >>

\* the HMSET round trip of _create_meta, called by flush, and the return
SFlushCreate(s) ==
  /\ spc[s].at = "flush_hmset"
  /\ redis' = ScalableBloomFilter_create_meta(redis, sbf[s])
  /\ spc' = [spc EXCEPT ![s] = SIdle]
  /\ last' = [NoCall EXCEPT !.op = "flush", !.kind = "sbf", !.h = s]
  /\ UNCHANGED << bf, sbf, pc, added, sadded, novel, bulk, loon >>

(* ------------------ one client, one object of either class ------------ *)

\* the client works with a BloomFilter, or with a ScalableBloomFilter that
\* it constructs once on the empty database
Next ==
  \/ \E c \in Capacities, e \in ErrorRates :
        sbf[1] = NoScalable /\ last.kind # "sbf" /\ Construct(1, c, e)
  \/ \E k \in Keys :
        sbf[1] = NoScalable /\ last.kind # "sbf" /\ Add(1, k)
  \/ \E ks \in KeyLists :
        sbf[1] = NoScalable /\ last.kind # "sbf" /\ BulkAdd(1, ks)
  \/ sbf[1] = NoScalable /\ last.kind # "sbf" /\ Flush(1)
  \/ \E c \in InitialCapacities, e \in SErrorRates, sc \in Scales,
        ra \in Ratios :
        /\ bf[1] = NoFilter /\ last.kind # "bf" /\ sbf[1] = NoScalable
        /\ SConstruct(1, c, e, sc, ra)
  \/ \E k \in Keys :
        /\ bf[1] = NoFilter /\ last.kind # "bf"
        /\ SAdd(1, k) /\ GrowsWithin(1, MaxGenerations)
  \/ \E ks \in KeyLists :
        /\ bf[1] = NoFilter /\ last.kind # "bf"
        /\ SBulkAdd(1, ks) /\ GrowsWithin(1, MaxGenerations)
  \/ bf[1] = NoFilter /\ last.kind # "bf" /\ SFlush(1)

Spec == Init /\ [][Next]_vars

(* ------- ScalableBloomFilter.bulk_add, one pass of its loop at a time --- *)

\* sbf[s].bulk_add(keys) is called: index = 0; no call has returned last
\* while this one runs
SBulkCall(s, keys) ==
  /\ sbf[s] # NoScalable
  /\ ~bulk.active
  /\ bulk' = [NoBulk EXCEPT !.active = TRUE, !.h = s, !.keys = keys]
  /\ last' = NoCall
  /\ UNCHANGED << redis, bf, sbf, pc, added, sadded, novel, loon, spc >>

\* one pass of the while loop; an exception of _get_next_filter or of
\* bf.bulk_add ends the call
SBulkPass(s) ==
  /\ bulk.active /\ bulk.h = s
  /\ bulk.index < Len(bulk.keys)
  /\ \E p \in { bulk_add_pass(redis, sbf[s], bulk.keys, bulk.index) } :
        /\ redis' = p.r
        /\ sbf' = [sbf EXCEPT ![s] = p.self]
        /\ IF p.exc = "none"
            THEN /\ bulk' = [bulk EXCEPT !.index = p.index, !.at = p.at,
                                         !.passes = @ + 1]
                 /\ last' = NoCall
            ELSE /\ bulk' = NoBulk
                 /\ last' = [NoCall EXCEPT !.op = "bulk_add", !.kind = "sbf",
                               !.h = s, !.keys = Range(bulk.keys),
                               !.exc = p.exc]
        /\ UNCHANGED << bf, pc, added, sadded, novel, loon, spc >>

\* the loop condition fails: bulk_add returns
SBulkReturn(s) ==
  /\ bulk.active /\ bulk.h = s
  /\ ~(bulk.index < Len(bulk.keys))
  /\ bulk' = NoBulk
  /\ sadded' = [sadded EXCEPT ![s] = @ \cup Range(bulk.keys)]
  /\ last' = [NoCall EXCEPT !.op = "bulk_add", !.kind = "sbf", !.h = s,
                 !.keys = Range(bulk.keys)]
  /\ UNCHANGED << redis, bf, sbf, pc, added, novel, loon, spc >>

(* ------------- one client that builds a long chain and reloads it ------ *)

\* the keys and the constructor arguments of the long chains: with
\* ChainScales and ChainRatios every generation has the capacity and the
\* error rate of the first one
ChainKeys == {1, 2}

ChainKeyLists == { ks \in KeyLists : Range(ks) \subseteq ChainKeys }

ChainScales == {1}

ChainRatios == {1000000}

\* the lists the client below gives to bulk_add; it adds the keys of these
\* lists. A filter of capacity 1 and error rate 0.5 has two bits, of which
\* keys 1 and 2 set the first and key 4 the second; a filter of capacity 2
\* has three bits, of which keys 1 and 4 set the third and key 2 the first
ReloadLists == { << >>, <<1>>, <<1, 2>>, <<1, 4>> }

\* the client constructs the object anew at any time between two calls; it
\* makes the calls that leave a chain of at most MaxChain generations, and
\* every pass of a bulk_add it has called is made
NextReload ==
  \/ \E c \in InitialCapacities, e \in SErrorRates, sc \in ChainScales,
        ra \in ChainRatios :
        ~bulk.active /\ SConstruct(1, c, e, sc, ra)
  \/ \E k \in UNION { Range(ks) : ks \in ReloadLists } :
        ~bulk.active /\ SAdd(1, k) /\ GrowsWithin(1, MaxChain)
  \/ \E ks \in ReloadLists :
        /\ SBulkCall(1, ks)
        /\ Len(ScalableBloomFilter_bulk_add(redis, sbf[1], ks).self.filters)
             <= MaxChain
  \/ SBulkPass(1)
  \/ SBulkReturn(1)

SpecReload == Init /\ [][NextReload]_vars

(* ------------- one client, bulk_add one pass of its loop at a time ----- *)

\* the lists given to bulk_add: those of KeyLists, and longer ones that
\* take three passes and go to three generations, of at most five keys
BulkLists ==
  KeyLists \cup { <<1, 2, 3>>, <<1, 2, 3, 1>>, <<3, 3, 1, 2, 1>> }

\* the client constructs the object once on the empty database; it makes
\* the calls that leave a chain of at most MaxGenerations generations, and
\* every pass of a bulk_add it has called is made
NextBulk ==
  \/ \E c \in InitialCapacities, e \in SErrorRates, sc \in Scales,
        ra \in Ratios :
        sbf[1] = NoScalable /\ SConstruct(1, c, e, sc, ra)
  \/ \E k \in Keys :
        ~bulk.active /\ SAdd(1, k) /\ GrowsWithin(1, MaxGenerations)
  \/ \E ks \in BulkLists :
        /\ SBulkCall(1, ks)
        /\ Len(ScalableBloomFilter_bulk_add(redis, sbf[1], ks).self.filters)
             <= MaxGenerations
  \/ SBulkPass(1)
  \/ SBulkReturn(1)
  \/ ~bulk.active /\ SFlush(1)

SpecBulk == Init /\ [][NextBulk]_vars

(* ------------- two handles bound to the same scalable filter ------------ *)

\* two clients hold one ScalableBloomFilter object each on the same name,
\* construct it once and add, every call interleaved with the calls of the
\* other client at its round trips; neither flushes
NextHandles ==
  \/ \E s \in SBFHandles, c \in InitialCapacities, e \in SErrorRates,
        sc \in ChainScales, ra \in ChainRatios :
        sbf[s] = NoScalable /\ SInitRead(s, c, e, sc, ra)
  \/ \E s \in SBFHandles : SInitExists(s)
  \/ \E s \in SBFHandles : SInitCreate(s)
  \/ \E s \in SBFHandles : SInitMembers(s)
  \/ \E s \in SBFHandles : SFilterRead(s)
  \/ \E s \in SBFHandles : SFilterExists(s)
  \/ \E s \in SBFHandles : SFilterCreate(s)
  \/ \E s \in SBFHandles : SRegister(s)
  \/ \E s \in SBFHandles, k \in ChainKeys : SAddCall(s, k)
  \/ \E s \in SBFHandles : SContains(s)
  \/ \E s \in SBFHandles : SAddPipeline(s)
  \/ \E s \in SBFHandles : SAddIncrement(s)

SpecHandles == Init /\ [][NextHandles]_vars

\* the key of the clients that flush
FlushKeys == {1}

\* the two clients of NextHandles, which add one key and also flush
NextHandlesFlush ==
  \/ \E s \in SBFHandles, c \in InitialCapacities, e \in SErrorRates,
        sc \in ChainScales, ra \in ChainRatios :
        sbf[s] = NoScalable /\ SInitRead(s, c, e, sc, ra)
  \/ \E s \in SBFHandles : SInitExists(s)
  \/ \E s \in SBFHandles : SInitCreate(s)
  \/ \E s \in SBFHandles : SInitMembers(s)
  \/ \E s \in SBFHandles : SFilterRead(s)
  \/ \E s \in SBFHandles : SFilterExists(s)
  \/ \E s \in SBFHandles : SFilterCreate(s)
  \/ \E s \in SBFHandles : SRegister(s)
  \/ \E s \in SBFHandles, k \in FlushKeys : SAddCall(s, k)
  \/ \E s \in SBFHandles : SContains(s)
  \/ \E s \in SBFHandles : SAddPipeline(s)
  \/ \E s \in SBFHandles : SAddIncrement(s)
  \/ \E s \in SBFHandles : SFlushPipeline(s)
  \/ \E s \in SBFHandles : SFlushCreate(s)

SpecHandlesFlush == Init /\ [][NextHandlesFlush]_vars

(* ------- one client that constructs with arguments of any validity ------ *)

\* error rates offered to ScalableBloomFilter here, 0 and 1 included
SAnyErrorRates == {0, Thousandths(500), One}

\* the client constructs the object with valid and invalid arguments
\* (Capacities holds 0), adds and flushes
NextValidation ==
  \/ \E c \in Capacities, e \in SAnyErrorRates, sc \in ChainScales,
        ra \in ChainRatios : SConstruct(1, c, e, sc, ra)
  \/ \E k \in Keys : SAdd(1, k) /\ GrowsWithin(1, MaxGenerations)
  \/ SFlush(1)

SpecValidation == Init /\ [][NextValidation]_vars

(* --------- one client, BloomFilters of several numbers of slices -------- *)

\* constructor arguments that give 1, 2 and 10 slices of 2 to 5 bits
AddressCapacities == {1, 2, 3}

AddressErrorRates == {Thousandths(1), Thousandths(250), Thousandths(500)}

\* the client constructs one BloomFilter on the empty database, adds and
\* bulk-adds
NextAddress ==
  \/ \E c \in AddressCapacities, e \in AddressErrorRates :
        bf[1] = NoFilter /\ Construct(1, c, e)
  \/ \E k \in Keys : Add(1, k)
  \/ \E ks \in KeyLists : BulkAdd(1, ks)

SpecAddress == Init /\ [][NextAddress]_vars

(* ------------- one client of the BloomFilter of loonfilter/loon.py ------ *)

\* loon = loon.BloomFilter(connection, BFName, capacity, error_rate); a
\* constructor that raises leaves the earlier object bound
LoonConstruct(capacity, error_rate) ==
  /\ \E c \in { loon_BloomFilter_init(redis, BFName, capacity, error_rate) } :
        /\ redis' = c.r
        /\ loon' = IF c.exc = "none" THEN c.self ELSE loon
        /\ last' = [NoCall EXCEPT !.op = "init", !.kind = "loon",
                       !.exc = c.exc, !.capacity = capacity,
                       !.error_rate = error_rate]
        /\ UNCHANGED << bf, sbf, pc, added, sadded, novel, bulk, spc >>

\* loon.add(key)
LoonAdd(key) ==
  /\ loon # NoLoon
  /\ \E a \in { loon_BloomFilter_add(redis, loon, key) } :
        /\ redis' = a.r
        /\ loon' = a.self
        /\ last' = [NoCall EXCEPT !.op = "add", !.kind = "loon",
                       !.key = key, !.ret = a.ret, !.exc = a.exc]
        /\ UNCHANGED << bf, sbf, pc, added, sadded, novel, bulk, spc >>

\* loon.bulk_add(keys)
LoonBulkAdd(keys) ==
  /\ loon # NoLoon
  /\ \E b \in { loon_BloomFilter_bulk_add(redis, loon, keys) } :
        /\ redis' = b.r
        /\ loon' = b.self
        /\ last' = [NoCall EXCEPT !.op = "bulk_add", !.kind = "loon",
                       !.keys = Range(keys), !.exc = b.exc]
        /\ UNCHANGED << bf, sbf, pc, added, sadded, novel, bulk, spc >>

\* the metadata record is written by a larkspur BloomFilter on the same name
\* (the loon.py constructor cannot make it); the loon.py object is then
\* constructed and used, and the larkspur object flushes the filter
NextLoon ==
  \/ \E c \in SharedCapacities, e \in SharedErrorRates : Construct(1, c, e)
  \/ \E c \in SharedCapacities, e \in SharedErrorRates : LoonConstruct(c, e)
  \/ \E k \in Keys : LoonAdd(k)
  \/ \E ks \in KeyLists : LoonBulkAdd(ks)
  \/ Flush(1)

SpecLoon == Init /\ [][NextLoon]_vars

(* ------------- add key by key, to compare with bulk_add ---------------- *)

RECURSIVE add_each(_, _, _)
\* for k in keys: self.add(k), up to the first exception; within tells that
\* the object's count was <= capacity before and after every add
add_each(r, self, keys) ==
  IF keys = << >>
  THEN [ r |-> r, self |-> self, exc |-> "none",
         within |-> self.count <= self.capacity ]
  ELSE LET a == BloomFilter_add(r, self, Head(keys))
       IN  IF a.exc # "none"
           THEN [ r |-> a.r, self |-> a.self, exc |-> a.exc,
                  within |-> FALSE ]
           ELSE [ add_each(a.r, a.self, Tail(keys))
                    EXCEPT !.within = @ /\ self.count <= self.capacity ]

RECURSIVE novel_keys(_, _, _)
\* the keys of the list, counted with repetition, that find one of their
\* bits unset in the bit array just before their own bits are set
novel_keys(bits, self, keys) ==
  IF keys = << >> THEN 0
  ELSE LET pos == Range(contains_positions(self, Head(keys)))
       IN  (IF pos \subseteq bits THEN 0 ELSE 1)
           + novel_keys(bits \cup pos, self, Tail(keys))

\* the error rate of the filters compared: two slices
EquivErrorRates == {Thousandths(250)}

\* the lists the clients pass to bulk_add: no key, one key, a key twice and
\* two keys
EquivKeyLists == { << >>, <<1>>, <<2, 2>>, <<1, 2>> }

\* two clients hold one BloomFilter object each on the same name, construct
\* it once and add, bulk-add and flush, every call interleaved with the calls
\* of the other client at its round trips
NextEquiv ==
  \/ \E h \in BFHandles, c \in SharedCapacities, e \in EquivErrorRates :
        bf[h] = NoFilter /\ ConstructRead(h, c, e)
  \/ \E h \in BFHandles : ConstructExists(h)
  \/ \E h \in BFHandles : ConstructCreate(h)
  \/ \E h \in BFHandles, k \in ChainKeys : AddCall(h, k)
  \/ \E h \in BFHandles : AddPipeline(h)
  \/ \E h \in BFHandles : AddIncrement(h)
  \/ \E h \in BFHandles, ks \in EquivKeyLists : BulkAddPipeline(h, ks)
  \/ \E h \in BFHandles : BulkAddIncrement(h)
  \/ \E h \in BFHandles : Flush(h)

SpecEquiv == Init /\ [][NextEquiv]_vars

(* ------------- one client whose keys are given a time to live ---------- *)

\* the client of a BloomFilter, which also calls expire; the server removes
\* the keys when their time has run out, between any two round trips of a
\* call
NextLifetime ==
  \/ \E c \in SharedCapacities, e \in EquivErrorRates : ConstructRead(1, c, e)
  \/ ConstructExists(1)
  \/ ConstructCreate(1)
  \/ \E k \in Keys : AddCall(1, k)
  \/ AddPipeline(1)
  \/ AddIncrement(1)
  \/ \E ks \in ChainKeyLists : BulkAddPipeline(1, ks)
  \/ BulkAddIncrement(1)
  \/ Flush(1)
  \/ \E t \in ExpireTimes : Expire(1, t)
  \/ Expired

SpecLifetime == Init /\ [][NextLifetime]_vars

\* scales and error rates of the client below: with scale 1000000000 the
\* second generation has the largest capacity a generation is given,
\* 1000000000, which at error rate 0.45 takes 1661989152 bits and at error
\* rate 0.0009 more than 1 << 32
GrowthScales == {1, 2, 1000000000}

GrowthErrorRates == {Thousandths(500), Thousandths(1)}

\* the client of a ScalableBloomFilter, constructed once on the empty
\* database, which also calls expire; the keys are removed between any two
\* round trips of a call
NextSLifetime ==
  \/ \E c \in InitialCapacities, e \in GrowthErrorRates,
        sc \in GrowthScales, ra \in Ratios :
        sbf[1] = NoScalable /\ SInitRead(1, c, e, sc, ra)
  \/ SInitExists(1)
  \/ SInitCreate(1)
  \/ SInitMembers(1)
  \/ SFilterRead(1)
  \/ SFilterExists(1)
  \/ SFilterCreate(1)
  \/ SRegister(1)
  \/ \E k \in Keys : SAddCall(1, k)
  \/ SContains(1)
  \/ SAddPipeline(1)
  \/ SAddIncrement(1)
  \/ SFlushPipeline(1)
  \/ SFlushCreate(1)
  \/ \E t \in ExpireTimes : SExpire(1, t)
  \/ Expired

SpecSLifetime == Init /\ [][NextSLifetime]_vars

(* ------------------------------ properties ----------------------------- *)

\* the five configuration fields of an object or of a metadata hash
Config(x) ==
  << x.error_rate, x.num_slices, x.bits_per_slice, x.capacity, x.num_bits >>

\* the last filter of a chain
LastFilter(self) == self.filters[Len(self.filters)]

\* the registered generation that was created last
NewestName(r) ==
  CHOOSE n \in r.registry : \A m \in r.registry : Suffix(m) <= Suffix(n)

\* C1: every key written through the client's object since the last flush
\* is reported present by contains, whatever was written after it and
\* however many generations the scalable filter has grown to
C1_NoFalseNegatives ==
  /\ \A k \in added[1] : BloomFilter_contains(redis, bf[1], k)
  /\ \A k \in sadded[1] : ScalableBloomFilter_contains(redis, sbf[1], k)

\* an add has grown the chain, and an earlier key sits in an older
\* generation only
C1_Witness ==
  /\ last.op = "add" /\ last.kind = "sbf" /\ last.exc = "none" /\ ~last.ret
  /\ Len(sbf[1].filters) >= 2
  /\ \E k \in sadded[1] :
        /\ k # last.key
        /\ BloomFilter_contains(redis, sbf[1].filters[1], k)
        /\ ~BloomFilter_contains(redis, LastFilter(sbf[1]), k)

\* C2: after bulk_add(keys) has returned without error, every key of the
\* list is reported present
C2_BulkAddNoFalseNegatives ==
  (last.op = "bulk_add" /\ last.exc = "none") =>
    \A k \in last.keys :
       IF last.kind = "bf"
       THEN BloomFilter_contains(redis, bf[1], k)
       ELSE ScalableBloomFilter_contains(redis, sbf[1], k)

\* a list of more keys than the first generation's capacity went to two
\* generations
C2_Witness ==
  /\ last.op = "bulk_add" /\ last.kind = "sbf" /\ last.exc = "none"
  /\ Cardinality(last.keys) > sbf[1].initial_capacity
  /\ Len(sbf[1].filters) >= 2

\* C3 as stated: add(k) called again right after a successful add(k)
\* returns True, changes no bit and does not increase count
C3_SecondAddReportsPresent ==
  [][ (last'.op = "add" /\ last'.kind = "bf" /\ last'.again) =>
        /\ last'.exc = "none" /\ last'.ret
        /\ redis'.bits = redis.bits
        /\ bf'[1].count <= bf[1].count
        /\ redis'.hashes[BFName].count <= redis.hashes[BFName].count ]_vars

\* C3 amended: the second add(k) changes neither the database nor the
\* object; it returns True while count <= capacity and raises the capacity
\* error when the first call left count > capacity
C3_SecondAddChangesNothing ==
  [][ (last'.op = "add" /\ last'.kind = "bf" /\ last'.again) =>
        /\ IF bf[1].count > bf[1].capacity
           THEN last'.exc = "IndexError"
           ELSE last'.exc = "none" /\ last'.ret
        /\ redis' = redis
        /\ bf' = bf ]_vars

\* a second add(k) has returned True after the first one counted the key
C3_Witness ==
  /\ last.op = "add" /\ last.kind = "bf" /\ last.again
  /\ last.exc = "none" /\ last.ret
  /\ bf[1].count >= 1 /\ bf[1].count <= bf[1].capacity

\* C4: persisted-config precedence. A constructor whose HGETALL finds the
\* record an earlier construction has persisted takes num_slices,
\* bits_per_slice, num_bits, capacity and error_rate from the record,
\* whatever arguments it was called with, and they are those of every object
\* constructed on the name before. While that constructor waits for its
\* EXISTS the configuration in the record does not change; its EXISTS finds
\* the hash, so it sends no HMSET, writes nothing and returns the object it
\* built from the record (first write wins). An object keeps its
\* configuration for life
C4_PersistedConfigWins ==
  [][ \A h \in BFHandles :
        /\ ( /\ pc[h] = Idle /\ pc'[h].at = "exists"
             /\ MetaFields \subseteq redis.hashes[BFName].has ) =>
              /\ Config(pc'[h].self) = Config(redis.hashes[BFName])
              /\ \A g \in BFHandles :
                    bf[g] # NoFilter => Config(bf[g]) = Config(pc'[h].self)
        /\ ( /\ pc[h].at = "exists"
             /\ MetaFields \subseteq redis.hashes[BFName].has
             /\ Config(pc[h].self) = Config(redis.hashes[BFName]) ) =>
              /\ Config(redis'.hashes[BFName]) = Config(redis.hashes[BFName])
              /\ pc'[h] # pc[h] =>
                    /\ redis' = redis
                    /\ pc'[h] = Idle
                    /\ bf'[h] = pc[h].self
                    /\ \A g \in BFHandles :
                          bf'[g] # NoFilter => Config(bf'[g]) = Config(bf'[h])
        /\ bf[h] # NoFilter => Config(bf'[h]) = Config(bf[h]) ]_vars

\* the second client has called the constructor with another capacity and
\* another error rate than the record the first client persisted and has
\* written to since, and its object has the capacity and the error rate of
\* the record
C4_Witness ==
  /\ bf[1] # NoFilter /\ redis.hashes[BFName].count >= 1
  /\ pc[2].at = "exists"
  /\ pc[2].capacity # bf[1].capacity
  /\ pc[2].error_rate # bf[1].error_rate
  /\ pc[2].self.capacity = redis.hashes[BFName].capacity
  /\ pc[2].self.error_rate = redis.hashes[BFName].error_rate
  /\ pc[2].self.count = redis.hashes[BFName].count

\* C5: right after flush() count is 0 and no key written through the object
\* before the flush is reported present
C5_FlushEmpties ==
  last.op = "flush" =>
    IF last.kind = "bf"
    THEN /\ bf[1].count = 0
         /\ \A k \in last.prior : ~BloomFilter_contains(redis, bf[1], k)
    ELSE /\ ScalableBloomFilter_count(sbf[1]) = 0
         /\ \A k \in last.prior :
               ~ScalableBloomFilter_contains(redis, sbf[1], k)

\* a filter that held keys was flushed
C5_Witness == last.op = "flush" /\ Cardinality(last.prior) >= 2

\* C6: BloomFilter.add raises the capacity error exactly when the object's
\* count exceeds its capacity at the call, and then leaves the database and
\* the object as they were; a call made with count <= capacity goes on to
\* its SETBITs, also when the keys have expired or expire while it runs
C6_CapacityError ==
  [][ /\ (last'.op = "add" /\ last'.kind = "bf" /\ last'.exc = "IndexError")
           => /\ bf[1].count > bf[1].capacity
              /\ redis' = redis /\ bf' = bf /\ pc' = pc
      /\ (pc[1] = Idle /\ pc'[1].at = "pipeline")
           => bf[1].count <= bf[1].capacity ]_vars

\* add has raised on a filter whose count is one over its capacity
C6_Witness ==
  /\ last.op = "add" /\ last.kind = "bf" /\ last.exc = "IndexError"
  /\ bf[1].count = bf[1].capacity + 1

\* C7: when the last generation of the chain is full and a key that no
\* generation contains is added, the constructor of the next generation is
\* called with capacity min(capacity * scale, 1000000000). When the
\* generation passes the size check of the constructor it is appended and
\* registered, the key is stored in it, and no round trip of the call changes
\* the bits or the record of an older generation, also when keys expire while
\* the call runs. When its num_bits exceeds 1 << 32 add raises ValueError and
\* neither the chain nor the database has changed
C7_ScalableGrowthWithinSize ==
  [][ (spc[1].op = "add" /\ spc' # spc) =>
        LET old == sbf[1].filters
            n == Len(old)
            now == sbf'[1].filters
        IN  /\ (spc[1].at = "contains"
                  /\ spc'[1].at \in {"filter_read", "pipeline"})
                 => ( spc'[1].at = "filter_read"
                        <=> old[n].count >= old[n].capacity )
            /\ (spc[1].at = "filter_read" /\ n >= 1)
                 => \E made \in
                       { init_fields(redis, bf_name(n),
                                     Min(old[n].capacity * sbf[1].scale,
                                         1000000000),
                                     next_error_rate(old[n], sbf[1].ratio)) } :
                       IF TooLarge(made.num_bits)
                       THEN /\ spc'[1] = SIdle
                            /\ last'.op = "add" /\ last'.exc = "ValueError"
                            /\ redis' = redis /\ sbf' = sbf
                       ELSE /\ spc'[1].at = "filter_exists"
                            /\ spc'[1].new = made
            /\ (now # old /\ spc[1].at # "hincrby")
                 => /\ Len(now) = n + 1 /\ SubSeq(now, 1, n) = old
                    /\ now[n + 1].name = bf_name(n)
                    /\ now[n + 1].count = 0
                    /\ n >= 1 => now[n + 1].capacity =
                                   Min(old[n].capacity * sbf[1].scale,
                                       1000000000)
                    /\ redis'.hashes[now[n + 1].name].capacity
                         = now[n + 1].capacity
                    /\ spc'[1].at = "sadd"
            /\ spc[1].at = "sadd"
                 => /\ redis'.registry = redis.registry \cup {old[n].name}
                    /\ spc'[1].at = "pipeline" /\ spc'[1].i = n
            /\ spc[1].at = "pipeline"
                 => /\ spc[1].i = n
                    /\ BloomFilter_contains(redis', old[n], spc[1].key)
            /\ spc[1].at = "hincrby"
                 => /\ redis'.hashes[old[n].name].count
                         = redis.hashes[old[n].name].count + 1
                    /\ now[n].count = redis'.hashes[old[n].name].count
            /\ \A j \in 1..(Len(now) - 1) :
                  /\ now[j] = old[j]
                  /\ redis'.bits[now[j].name] = redis.bits[now[j].name]
                  /\ redis'.hashes[now[j].name] = redis.hashes[now[j].name]
    ]_vars

\* C7 as the specification states it: the above, and the next generation is
\* made whenever the last one is full and no generation contains the key
C7_ScalableGrowth ==
  /\ C7_ScalableGrowthWithinSize
  /\ [][ ( /\ spc[1].op = "add" /\ spc[1].at = "filter_read"
           /\ sbf[1].filters # << >> /\ spc' # spc )
           => spc'[1].at = "filter_exists" ]_vars

\* an add has made a generation of the largest capacity, 1000000000, less
\* than the capacity of the full one before it times the scale, and has
\* stored its key there
C7_Witness ==
  /\ spc[1] = SIdle
  /\ Len(sbf[1].filters) >= 2
  /\ LET n == Len(sbf[1].filters)
     IN  /\ sbf[1].filters[n].count = 1
         /\ redis.hashes[sbf[1].filters[n].name].count = 1
         /\ sbf[1].filters[n].capacity = 1000000000
         /\ sbf[1].filters[n - 1].capacity * sbf[1].scale > 1000000000
         /\ sbf[1].filters[n - 1].count >= sbf[1].filters[n - 1].capacity
         /\ \E k \in sadded[1] :
               /\ BloomFilter_contains(redis, sbf[1].filters[n], k)
               /\ ~BloomFilter_contains(redis, sbf[1].filters[n - 1], k)

\* C8: a BloomFilter constructor called with an error rate outside (0, 1)
\* or a capacity <= 0 raises the validation error and leaves the database
\* as it was
C8_ValidationBeforeStore ==
  [][ ( /\ last'.op = "init" /\ last'.kind = "bf"
        /\ \/ last'.error_rate <= 0
           \/ last'.error_rate >= One
           \/ last'.capacity <= 0 )
      => last'.exc = "ValueError" /\ redis' = redis /\ bf' = bf ]_vars

\* a constructor has raised on a database that holds a filter
C8_Witness ==
  /\ last.op = "init" /\ last.kind = "bf" /\ last.exc = "ValueError"
  /\ redis.bits[BFName] # {}
  /\ redis.hashes[BFName].has # {}

\* C9: ScalableBloomFilter.add of a key the chain contains returns True and
\* changes neither the database nor the object
C9_AddPresentKeyIsNoOp ==
  [][ \A k \in Keys :
        ( /\ last'.op = "add" /\ last'.kind = "sbf" /\ last'.key = k
          /\ ScalableBloomFilter_contains(redis, sbf[1], k) )
        => /\ last'.ret /\ last'.exc = "none"
           /\ redis' = redis
           /\ sbf' = sbf ]_vars

\* add has returned True for a key of an older generation while the last
\* generation was full
C9_Witness ==
  /\ last.op = "add" /\ last.kind = "sbf" /\ last.exc = "none" /\ last.ret
  /\ Len(sbf[1].filters) >= 2
  /\ LastFilter(sbf[1]).count >= LastFilter(sbf[1]).capacity
  /\ BloomFilter_contains(redis, sbf[1].filters[1], last.key)

\* C10: atomic counter under concurrent writers. Every round trip of an add
\* call, whatever the calls of the other handles on the name are doing,
\* keeps the persisted count equal, up to the difference it had before, to
\* the number of add batches that found a bit unset, less the calls that
\* have not yet sent their HINCRBY; the difference is 0 until a batch has
\* found a bit unset. In every interleaving of add calls, without flush,
\* the persisted count is therefore the number of batches that found a bit
\* unset: no increment is lost and none is made twice
C10_AtomicCounter ==
  /\ [](novel = 0 => redis.hashes[BFName].count = 0)
  /\ [][ (\E h \in BFHandles : bf[h] # NoFilter /\ pc'[h] # pc[h]) =>
           redis'.hashes[BFName].count
             - (novel' - Cardinality({ h \in BFHandles : pc'[h].at = "hincrby" }))
           = redis.hashes[BFName].count
             - (novel - Cardinality({ h \in BFHandles : pc[h].at = "hincrby" }))
       ]_vars

\* the adds of both clients have set new bits and neither has sent its
\* HINCRBY yet, after an add that has counted
C10_Witness ==
  /\ pc[1].at = "hincrby" /\ pc[2].at = "hincrby"
  /\ pc[1].key # pc[2].key
  /\ redis.hashes[BFName].count >= 1
  /\ novel = redis.hashes[BFName].count + 2


\* C11: the chain of an object constructed on a name that has generations
\* holds them in the order of their creation, bf0, bf1, bf2, ...
C11_ChainInCreationOrder ==
  (last.op = "init" /\ last.kind = "sbf" /\ last.exc = "none") =>
    /\ Len(sbf[1].filters) = Cardinality(redis.registry)
    /\ \A i \in 1..Len(sbf[1].filters) :
          sbf[1].filters[i].name = bf_name(i - 1)

\* C12: a generation is registered only by a step that finds no generation
\* registered or finds the generation created last with count >= capacity
C12_GrowthOnlyWhenFull ==
  [][ (redis'.registry \ redis.registry # {}) =>
        \/ redis.registry = {}
        \/ redis.hashes[NewestName(redis)].count
             >= redis.hashes[NewestName(redis)].capacity ]_vars

C14_MetadataComplete ==
  exists(redis, BFName) => MetaFields \subseteq hgetall(redis, BFName).has

\* C15: ScalableBloomFilter.flush flushes every generation. When flush() has
\* returned on one handle and no call is in progress, no generation bit array and no generation metadata
\* record of the scalable filter remains in the store, also for generations
\* made through the other handle, and no handle reports a key present.
C15_FlushRemovesEveryGeneration ==
  (last.op = "flush" /\ last.kind = "sbf"
     /\ \A s \in SBFHandles : spc[s] = SIdle) =>
    /\ \A n \in GenNames : redis.bits[n] = {} /\ ~exists(redis, n)
    /\ \A s \in SBFHandles, k \in Keys :
          sbf[s] # NoScalable => ~ScalableBloomFilter_contains(redis, sbf[s], k)

\* C16: cross-handle visibility. With two handles on the same name and no
\* flush, a key added successfully through one handle is reported present by
\* contains on the other handle.
C16_CrossHandleVisibility ==
  \A s \in SBFHandles, t \in SBFHandles :
    sbf[t] # NoScalable =>
      \A k \in sadded[s] : ScalableBloomFilter_contains(redis, sbf[t], k)

\* C17: validation at ScalableBloomFilter construction. A constructor called
\* with an error rate outside (0, 1) or an initial capacity <= 0 raises the
\* validation error and leaves the database as it was, so that no
\* scalable-filter metadata record with invalid values is persisted.
C17_ScalableValidationBeforeStore ==
  [][ ( /\ last'.op = "init" /\ last'.kind = "sbf"
        /\ \/ last'.error_rate <= 0
           \/ last'.error_rate >= One
           \/ last'.capacity <= 0 )
      => last'.exc = "ValueError" /\ redis' = redis /\ sbf' = sbf ]_vars

\* the positions the keys of a set are given by __contains__
PositionsOf(self, ks) == UNION { Range(contains_positions(self, k)) : k \in ks }

\* C18: bit addressing. For every key the hasher of a filter yields exactly
\* num_slices indices, each in [0, bits_per_slice); contains, add and bulk_add
\* address the i-th index (i from 0) at i * bits_per_slice + index_i, one
\* bit in each slice and every position below num_bits; the bits that add and
\* bulk_add set are exactly the positions contains reads for their keys.
C18_BitAddressing ==
  [][ bf[1] # NoFilter =>
        /\ \A k \in Keys :
              LET self == bf[1]
                  idx == hasher(self.num_slices, self.bits_per_slice, k)
                  pos == contains_positions(self, k)
              IN  /\ Len(idx) = self.num_slices
                  /\ \A i \in 1..Len(idx) :
                        idx[i] >= 0 /\ idx[i] < self.bits_per_slice
                  /\ Len(pos) = self.num_slices
                  /\ \A i \in 1..Len(pos) :
                        /\ pos[i] = (i - 1) * self.bits_per_slice + idx[i]
                        /\ pos[i] \div self.bits_per_slice = i - 1
                        /\ pos[i] < self.num_bits
                  /\ add_positions(self, k) = pos
                  /\ bulk_positions(self, << k >>) = pos
        /\ (last'.kind = "bf" /\ last'.op = "add" /\ last'.exc = "none") =>
              redis'.bits[BFName] =
                redis.bits[BFName] \cup PositionsOf(bf[1], {last'.key})
        /\ (last'.kind = "bf" /\ last'.op = "bulk_add" /\ last'.exc = "none") =>
              redis'.bits[BFName] =
                redis.bits[BFName] \cup PositionsOf(bf[1], last'.keys) ]_vars

\* bulk_add has set the bits of two keys in a filter of ten slices, one bit
\* in each slice for each key
C18_Witness ==
  /\ last.kind = "bf" /\ last.op = "bulk_add" /\ last.exc = "none"
  /\ Cardinality(last.keys) = 2
  /\ bf[1].num_slices = 10
  /\ redis.bits[BFName] = PositionsOf(bf[1], last.keys)
  /\ \A i \in 0..9 :
        \E p \in redis.bits[BFName] : p \div bf[1].bits_per_slice = i

\* C19: loon.py bulk_add addressing. When bulk_add(keys) of the loon.py
\* BloomFilter has returned, the bits it set are the positions __contains__
\* reads for its keys, and every key of the list is reported present.
C19_LoonBulkAddAddressing ==
  (last.kind = "loon" /\ last.op = "bulk_add" /\ last.exc = "none") =>
    \A k \in last.keys :
      /\ Range(loon_contains_positions(loon, k)) \subseteq redis.bits[BFName]
      /\ loon_BloomFilter_contains(redis, loon, k)

\* the outcome b of bulk_add(keys) on the object of handle h shows the bit
\* array, the persisted count and the object's count of the outcome s of add,
\* key by key, and the persisted count has grown by the number of novel keys
SameAsAddEach(h, keys, b, s) ==
  /\ b.exc = "none"
  /\ b.r.bits[BFName] = s.r.bits[BFName]
  /\ b.r.hashes[BFName].count = s.r.hashes[BFName].count
  /\ b.r.hashes[BFName].count =
       redis.hashes[BFName].count
         + novel_keys(redis.bits[BFName], bf[h], keys)
  /\ b.self.count = s.self.count

\* the object's count is the persisted count
InStep(h) == bf[h].count = redis.hashes[BFName].count

\* C20 as stated: bulk_add is equivalent to sequential add. From every state
\* in which the client can make a call and for every list of the keys in use
\* that keeps the object's count <= capacity throughout, bulk_add(keys)
\* leaves the same bit array and the same persisted and local count as
\* add(k) for each k in list order, the counter grown by the number of keys
\* that found a bit unset.
C20_BulkAddAsSequentialAdd ==
  \A h \in BFHandles, ks \in ChainKeyLists :
    (bf[h] # NoFilter /\ pc[h] = Idle) =>
      \E s \in { add_each(redis, bf[h], ks) } :
        s.within =>
          SameAsAddEach(h, ks, BloomFilter_bulk_add(redis, bf[h], ks), s)

\* C20: bulk_add is equivalent to sequential add when the object's count is
\* the persisted count at the call. From every such state in which the
\* client can make a call and for every list of the keys in use that keeps
\* the count <= capacity throughout, bulk_add(keys) leaves the same bit
\* array and the same persisted and local count as add(k) for each k in list
\* order, the counter grown by the number of keys that found a bit unset;
\* with a count that is not the persisted one, the bits and the persisted
\* count are still the same and bulk_add leaves the object's count equal to
\* the persisted one.
C20_BulkAddAsSequentialAddInStep ==
  \A h \in BFHandles, ks \in ChainKeyLists :
    (bf[h] # NoFilter /\ pc[h] = Idle) =>
      \E s \in { add_each(redis, bf[h], ks) } :
        s.within =>
          \E b \in { BloomFilter_bulk_add(redis, bf[h], ks) } :
            /\ InStep(h) => SameAsAddEach(h, ks, b, s)
            /\ b.exc = "none"
            /\ b.r.bits[BFName] = s.r.bits[BFName]
            /\ b.r.hashes[BFName].count = s.r.hashes[BFName].count
            /\ b.self.count = b.r.hashes[BFName].count

\* an object in step with the store and a list with a repeated key, of which
\* bulk_add counts some keys and not all
C20_Witness ==
  \E h \in BFHandles, ks \in ChainKeyLists :
    /\ bf[h] # NoFilter /\ pc[h] = Idle /\ InStep(h)
    /\ add_each(redis, bf[h], ks).within
    /\ Len(ks) >= 2 /\ Cardinality(Range(ks)) < Len(ks)
    /\ redis.bits[BFName] # {}
    /\ BloomFilter_bulk_add(redis, bf[h], ks).self.count = bf[h].count + 1

\* C21: bounded capacity overshoot under concurrency. While the handles bound
\* to the name hold the capacity of the record, their add calls, interleaved
\* at their round trips, never take the persisted count over the capacity
\* plus the number of handles; with a single handle it never exceeds
\* capacity + 1
C21_BoundedOvershoot ==
  ( /\ exists(redis, BFName)
    /\ \A h \in BFHandles :
          bf[h] # NoFilter => bf[h].capacity = redis.hashes[BFName].capacity )
    => redis.hashes[BFName].count
         <= redis.hashes[BFName].capacity
              + Cardinality({ h \in BFHandles : bf[h] # NoFilter })

\* both clients hold the capacity of the record and have raced past the
\* capacity check: the persisted count is the capacity and two more, and
\* each client holds a count over the capacity
C21_Witness ==
  /\ \A h \in BFHandles :
        /\ bf[h] # NoFilter /\ pc[h] = Idle
        /\ bf[h].capacity = redis.hashes[BFName].capacity
        /\ bf[h].count > bf[h].capacity
  /\ redis.hashes[BFName].count
       = redis.hashes[BFName].capacity + Cardinality(BFHandles)

\* C22: per-generation capacity bound with one client. After any sequence of
\* add, bulk_add and re-instantiation, every generation has count <= capacity,
\* in the store and in the client's object, and neither
\* ScalableBloomFilter.add nor ScalableBloomFilter.bulk_add has raised the
\* capacity error.
C22_GenerationWithinCapacity ==
  /\ \A n \in redis.registry :
        redis.hashes[n].count <= redis.hashes[n].capacity
  /\ \A i \in 1..Len(sbf[1].filters) :
        sbf[1].filters[i].count <= sbf[1].filters[i].capacity
  /\ (last.kind = "sbf" /\ last.op \in {"add", "bulk_add"}) =>
        last.exc # "IndexError"

\* the object has been constructed again over a chain of eleven
\* generations, which puts bf10 before bf2 and bf9 last, and a call made
\* after that has returned with a twelfth generation, bf11, that holds a key
C22_Witness ==
  /\ last.kind = "sbf" /\ last.op \in {"add", "bulk_add"}
  /\ last.exc = "none"
  /\ Len(sbf[1].filters) = 12
  /\ sbf[1].filters[3].name = bf_name(10)
  /\ sbf[1].filters[11].name = bf_name(9)
  /\ sbf[1].filters[12].name = bf_name(11)
  /\ sbf[1].filters[12].count >= 1
  /\ sbf[1].filters[11].count = sbf[1].filters[11].capacity
====
